---------------------------- MODULE Spec2Model ----------------------------
(***************************************************************************)
(* State-machine model of the movie application backend:                   *)
(*   - the movie store and the read-through sync of movie.service.getMovie *)
(*   - the review store (unique (userId, movieId), foreign keys) and the   *)
(*     review service (createReview / updateReview / deleteReview)         *)
(* Every await of the service code is one step of a request process, so    *)
(* concurrent requests interleave at exactly the points where the code     *)
(* suspends.  Clock values are hours.                                      *)
(***************************************************************************)
EXTENDS Integers, Sequences, FiniteSets, TLC

\* ------------------------------------------------------------------ bounds
MaxTime == 36
MaxReviews == 2
MaxUsers == 2

\* --------------------------------------------------------- program constants
FRESH_WINDOW_HOURS == 24
MIN_RATING == 1
MAX_RATING == 10

\* ------------------------------------------------------------ input domains
Procs == {"p1", "p2"}
\* the HTTP server, whose position is kept next to the requests'
Server == "server"
\* the other parts of the running process: the Apollo server, the Prisma
\* client, the Node process itself and the last line the logger wrote
Apollo == "apollo"
Prisma == "prisma"
Process == "process"
Logger == "logger"
\* the signals index.ts listens for; each has the position of its handler
Signals == {"SIGTERM", "SIGINT"}
MovieIds == {550, 551}
UserIds == {"u1", "u2"}
Titles == {"Fight Club", "Updated Title"}
TickSteps == {12, 24}
Pages == {1}
Queries == {"fight"}
ListResults == {{550}, {550, 551}}
ReviewIds == 1 .. MaxReviews
\* a JavaScript number with one decimal: whole + tenths / 10
Num(w, t) == [whole |-> w, tenths |-> t]
RatingInputs == {Num(0, 0), Num(1, 0), Num(7, 5), Num(10, 0), Num(11, 0)}
CreateContents == {"Great movie!"}
\* updateReview payloads {rating?, content?}; an absent field is the empty set
UpdatePayloads ==
    {[rating |-> {}, content |-> {"Changed my mind"}],
     [rating |-> {Num(0, 0)}, content |-> {}],
     [rating |-> {Num(7, 5)}, content |-> {}],
     [rating |-> {Num(11, 0)}, content |-> {}],
     [rating |-> {Num(1, 0)}, content |-> {}],
     [rating |-> {Num(10, 0)}, content |-> {}]}
\* the request slots that issue updateReview (every slot issues the calls
\* that race on the unique key: createReview and deleteReview)
Updaters == {"p1"}
ReviewMovieIds == {550}
\* the users on whose behalf the repository is written to directly
Reviewers == {"u1"}
ProviderFailures == {"network", "status", "timeout"}
\* identities and e-mail addresses handed to findOrCreateUser
Auth0Ids == {"a1", "a2"}
Emails == {"e1", "e2"}
\* updateProfile payloads {username?, avatarUrl?}
ProfilePayloads ==
    {[username |-> {"neo"}, avatarUrl |-> {}],
     [username |-> {}, avatarUrl |-> {"pic"}]}

MovieOps == {"getMovie"}
ListOps == {"getTrending", "getPopular", "searchMovies"}

VARIABLES
    now,        \* wall clock (new Date() / CURRENT_TIMESTAMP), in hours
    movies,     \* table "movies": partial function id -> row
    users,      \* table "users": set of rows
    reviews,    \* table "movie_reviews": set of rows
    nextReview, \* number of review ids (uuid) handed out so far
    pc,         \* per request: the await it is suspended at; for the
                \* server: building, ready or closed
    call,       \* per request: operation name and arguments
    found,      \* per request: result of the first lookup ({} is null)
    fetched,    \* per request: outcome of the provider call
    res,        \* per request: what the call returned or threw
    startedAt,  \* per request: clock value when the call began
    providerCalls, \* per request: provider calls made by this call
    writes      \* per request: store writes made by this call

vars == <<now, movies, users, reviews, nextReview, pc, call, found, fetched,
          res, startedAt, providerCalls, writes>>

movieVars == <<movies>>
reviewVars == <<reviews, nextReview>>
procVars == <<pc, call, found, fetched, res, startedAt, providerCalls, writes>>

NoCall == [op |-> "none"]
NoRes == [kind |-> "none", val |-> {}]
NoFetch == [status |-> "none"]

\* ------------------------------------------------------------ movie store

\* movieRepository.findById: the row, or null (the empty set)
MovieFindById(store, id) ==
    IF id \in DOMAIN store THEN {store[id]} ELSE {}

\* the value a column takes from a record that may leave the field out
Supplied(data, f, otherwise) == IF f \in DOMAIN data THEN data[f] ELSE otherwise

\* the store with `row` as the one row of its id
MoviePut(store, row) ==
    [i \in DOMAIN store \cup {row.id} |-> IF i = row.id THEN row ELSE store[i]]

\* a plausible slip: the update branch without "syncedAt: new Date()"
MovieUpsertKeepsStamp(store, id, data, t) ==
    MoviePut(store,
             [id |-> id, title |-> data.title,
              posterPath |-> Supplied(data, "posterPath",
                                      IF id \in DOMAIN store
                                      THEN store[id].posterPath ELSE {}),
              syncedAt |-> IF id \in DOMAIN store THEN store[id].syncedAt
                           ELSE t])

\* a plausible slip: the row is replaced by the record, so a column the
\* record leaves out is reset
MovieUpsertReplaces(store, id, data, t) ==
    MoviePut(store,
             [id |-> id, title |-> data.title,
              posterPath |-> Supplied(data, "posterPath", {}),
              syncedAt |-> t])

\* a plausible slip: an insert that skips an id that has a row already
MovieUpsertInsertOnly(store, id, data, t) ==
    IF id \in DOMAIN store THEN store
    ELSE MoviePut(store,
                  [id |-> id, title |-> data.title,
                   posterPath |-> Supplied(data, "posterPath", {}),
                   syncedAt |-> t])

\* movieRepository.upsert: create {id, ...data} when absent (a nullable
\* column the record leaves out is null, synced_at DEFAULT now), otherwise
\* update {...data, syncedAt: new Date()} (a column the record leaves out
\* keeps its value)
MovieUpsert(store, id, data, t) ==
    MoviePut(store,
             [id |-> id, title |-> data.title,
              posterPath |-> Supplied(data, "posterPath",
                                      IF id \in DOMAIN store
                                      THEN store[id].posterPath ELSE {}),
              syncedAt |-> t])

\* a plausible slip: the comparison of the freshness test the wrong way round
IsFreshFlipped(row, t) == row.syncedAt < t - FRESH_WINDOW_HOURS

\* the freshness test of getMovie: movie.syncedAt > (now - 24h)
IsFresh(row, t) == row.syncedAt > t - FRESH_WINDOW_HOURS

\* mapTmdbDetailToMovie: provider detail -> MovieCreateInput (no syncedAt)
mapTmdbDetailToMovie(detail) ==
    [title |-> detail.title, posterPath |-> detail.poster_path]

Init ==
    /\ now = 0
    /\ movies = <<>>
    /\ users = {}
    /\ reviews = {}
    /\ nextReview = 0
    /\ pc = [p \in Procs \cup {Server, Apollo, Prisma, Process, Logger}
                         \cup Signals |->
                CASE p = Server -> "building"
                  [] p = Apollo -> "new"
                  [] p = Prisma -> "connected"
                  [] p = Process -> "new"
                  [] p = Logger -> "quiet"
                  [] p \in Signals -> "none"
                  [] OTHER -> "idle"]
    /\ call = [p \in Procs |-> NoCall]
    /\ found = [p \in Procs |-> {}]
    /\ fetched = [p \in Procs |-> NoFetch]
    /\ res = [p \in Procs |-> NoRes]
    /\ startedAt = [p \in Procs |-> 0]
    /\ providerCalls = [p \in Procs |-> 0]
    /\ writes = [p \in Procs |-> 0]

\* time passes between any two steps
Tick ==
    /\ \E d \in TickSteps :
        /\ now + d <= MaxTime
        /\ now' = now + d
    /\ UNCHANGED <<movies, users, reviews, nextReview>>
    /\ UNCHANGED procVars

\* a request begins: its arguments are bound, its locals are empty
Begin(p, c) ==
    /\ pc[p] = "idle"
    /\ call' = [call EXCEPT ![p] = c]
    /\ UNCHANGED <<found, fetched, providerCalls, writes>>

\* a request completes with result r (its start time is no longer needed)
Finish(p, r) ==
    /\ pc' = [pc EXCEPT ![p] = "done"]
    /\ res' = [res EXCEPT ![p] = r]
    /\ startedAt' = [startedAt EXCEPT ![p] = 0]

\* the caller consumes the result; the request slot is free again
Return(p) ==
    /\ pc[p] = "done"
    /\ pc' = [pc EXCEPT ![p] = "idle"]
    /\ call' = [call EXCEPT ![p] = NoCall]
    /\ found' = [found EXCEPT ![p] = {}]
    /\ fetched' = [fetched EXCEPT ![p] = NoFetch]
    /\ res' = [res EXCEPT ![p] = NoRes]
    /\ startedAt' = [startedAt EXCEPT ![p] = 0]
    /\ providerCalls' = [providerCalls EXCEPT ![p] = 0]
    /\ writes' = [writes EXCEPT ![p] = 0]
    /\ UNCHANGED <<now, movies, users, reviews, nextReview>>

\* ---------------------------------------------------- movie.service.getMovie

\* a plausible slip: no stale fallback, every provider failure is NotFound
OnProviderFailureNoFallback(f) == [kind |-> "NotFound", val |-> {}]

\* a plausible slip: the looked-up value is returned even when it is null
OnProviderFailureReturnsNull(f) == [kind |-> "ok", val |-> f]

\* getMovie steps 4-5: the provider failed (network error, non-2xx status or
\* the 5 s timeout); f is what findById returned
OnProviderFailure(f) ==
    IF f # {} THEN [kind |-> "ok", val |-> f]
    ELSE [kind |-> "NotFound", val |-> {}]

\* getMovie(id) is invoked
GetMovieCall(p, id) ==
    /\ Begin(p, [op |-> "getMovie", id |-> id])
    /\ pc' = [pc EXCEPT ![p] = "find"]
    /\ startedAt' = [startedAt EXCEPT ![p] = now]
    /\ UNCHANGED res
    /\ UNCHANGED <<now, movies, users, reviews, nextReview>>

\* step 1-2: movieRepo.findById resolves; a fresh row is returned at once
GetMovieFind(p) ==
    /\ pc[p] = "find"
    /\ call[p].op = "getMovie"
    /\ LET f == MovieFindById(movies, call[p].id) IN
        /\ found' = [found EXCEPT ![p] = f]
        /\ IF f # {} /\ (\A r \in f : IsFresh(r, now))
           THEN Finish(p, [kind |-> "ok", val |-> f])
           ELSE /\ pc' = [pc EXCEPT ![p] = "fetch"]
                /\ UNCHANGED <<res, startedAt>>
    /\ UNCHANGED <<now, movies, users, reviews, nextReview, call, fetched,
                   providerCalls, writes>>

\* step 3-5: the provider's detail call resolves or rejects; on rejection the
\* stale row is returned when there is one, NotFoundError is thrown otherwise
GetMovieFetch(p) ==
    /\ pc[p] = "fetch"
    /\ call[p].op = "getMovie"
    /\ providerCalls' = [providerCalls EXCEPT ![p] = @ + 1]
    /\ \/ \E t \in Titles :
            /\ fetched' = [fetched EXCEPT ![p] =
                    [status |-> "ok",
                     detail |-> [id |-> call[p].id, title |-> t,
                                 poster_path |-> {"/poster.jpg"}]]]
            /\ pc' = [pc EXCEPT ![p] = "upsert"]
            /\ UNCHANGED <<res, startedAt>>
       \/ \E e \in ProviderFailures :
            /\ fetched' = [fetched EXCEPT ![p] = [status |-> e]]
            /\ Finish(p, OnProviderFailure(found[p]))
    /\ UNCHANGED <<now, movies, users, reviews, nextReview, call, found,
                   writes>>

\* step 3: movieRepo.upsert resolves; the upserted row is returned
GetMovieUpsert(p) ==
    /\ pc[p] = "upsert"
    /\ call[p].op = "getMovie"
    /\ movies' = MovieUpsert(movies, call[p].id,
                             mapTmdbDetailToMovie(fetched[p].detail), now)
    /\ writes' = [writes EXCEPT ![p] = @ + 1]
    /\ Finish(p, [kind |-> "ok", val |-> {movies'[call[p].id]}])
    /\ UNCHANGED <<now, users, reviews, nextReview, call, found, fetched,
                   providerCalls>>

\* ------------------------------- getTrending / getPopular / searchMovies

\* a plausible slip: every listed movie is synced into the store
MoviesAfterListPersisted(store, results, t) ==
    [i \in DOMAIN store \cup results |->
        IF i \in results
        THEN [id |-> i, title |-> "Fight Club", posterPath |-> {},
              syncedAt |-> t]
        ELSE store[i]]

\* what a list endpoint leaves in the movie store: list results are passed
\* through and never written ("List endpoints do NOT write to DB")
MoviesAfterList(store, results, t) == store

\* getTrending(page), getPopular(page) or searchMovies(query, page): one
\* provider call, whose page of results (or whose rejection) is passed
\* through to the caller.  The call touches no shared state before or after
\* its single await, so it is one step.
ListCall(p, o, q, page) ==
    /\ pc[p] = "idle"
    /\ call' = [call EXCEPT ![p] = [op |-> o, query |-> q, page |-> page]]
    /\ providerCalls' = [providerCalls EXCEPT ![p] = 1]
    /\ \/ \E ids \in ListResults :
            /\ movies' = MoviesAfterList(movies, ids, now)
            /\ Finish(p, [kind |-> "ok", val |-> ids])
       \/ \E e \in ProviderFailures :
            /\ movies' = movies
            /\ Finish(p, [kind |-> "Unavailable", val |-> {}])
    /\ UNCHANGED <<now, users, reviews, nextReview, found, fetched, writes>>

MovieNext ==
    \/ Tick
    \/ \E p \in Procs : Return(p)
    \/ \E p \in Procs, id \in MovieIds : GetMovieCall(p, id)
    \/ \E p \in Procs : GetMovieFind(p)
    \/ \E p \in Procs : GetMovieFetch(p)
    \/ \E p \in Procs : GetMovieUpsert(p)
    \/ \E p \in Procs, o \in {"getTrending", "getPopular"}, page \in Pages :
            ListCall(p, o, "", page)
    \/ \E p \in Procs, q \in Queries, page \in Pages :
            ListCall(p, "searchMovies", q, page)

SpecMovie == Init /\ [][MovieNext]_vars

\* --------------------------------------- movie repository used directly

\* records handed to movieRepo.upsert: the fields of Prisma.MovieCreateInput
\* without id; the nullable posterPath may be left out, given, or null
MovieData ==
    {[title |-> "Fight Club", posterPath |-> {"/poster.jpg"}],
     [title |-> "Updated Title"],
     [title |-> "Updated Title", posterPath |-> {}]}

\* movieRepo.upsert(id, data) called by a client of the repository (the
\* repository tests do so); the upserted row is returned
MovieRepoUpsert(p, id, data) ==
    /\ pc[p] = "idle"
    /\ call' = [call EXCEPT ![p] = [op |-> "upsert", id |-> id,
                                    data |-> data]]
    /\ movies' = MovieUpsert(movies, id, data, now)
    /\ writes' = [writes EXCEPT ![p] = 1]
    /\ Finish(p, [kind |-> "ok", val |-> {movies'[id]}])
    /\ UNCHANGED <<now, users, reviews, nextReview, found, fetched,
                   providerCalls>>

MovieRepoNext ==
    \/ Tick
    \/ \E p \in Procs : Return(p)
    \/ \E p \in Procs, id \in MovieIds, d \in MovieData :
            MovieRepoUpsert(p, id, d)

SpecMovieRepo == Init /\ [][MovieRepoNext]_vars


\* -------------------------------------------------------------- user store

\* a row of table "users"; username and avatarUrl are nullable (the empty
\* set is null); created_at defaults to now and updated_at is set with it
UserRow(id, auth0Id, email, username, avatarUrl, t) ==
    [id |-> id, auth0Id |-> auth0Id, email |-> email, username |-> username,
     avatarUrl |-> avatarUrl, createdAt |-> t, updatedAt |-> t]

\* the primary keys of the stored users
UserIdsOf(store) == {u.id : u \in store}

\* userRepository.findById
UserFindById(store, id) == {u \in store : u.id = id}

\* userRepository.findByAuth0Id
UserFindByAuth0Id(store, a) == {u \in store : u.auth0Id = a}

\* a plausible slip: only the auth0_id index exists
UserConflictsAuth0IdOnly(store, data) ==
    {u \in store : "auth0Id" \in DOMAIN data /\ u.auth0Id = data.auth0Id}

\* the rows that hold a value the new or changed row `data` wants for a
\* unique column: users_auth0_id_key, users_email_key, users_username_key
\* (a null username collides with nothing)
UserConflicts(store, data) ==
    {u \in store :
        \/ "auth0Id" \in DOMAIN data /\ u.auth0Id = data.auth0Id
        \/ "email" \in DOMAIN data /\ u.email = data.email
        \/ data.username # {} /\ u.username = data.username}

\* userRepository.create: the row is inserted with a new id unless a unique
\* index rejects it (Prisma P2002).  Users are never deleted, so the number
\* of rows so far names a fresh id.
UserCreate(store, data, t) ==
    IF UserConflicts(store, data) # {}
    THEN [kind |-> "P2002", store |-> store, val |-> {}]
    ELSE LET row == UserRow(Cardinality(store) + 1, data.auth0Id, data.email,
                            data.username, data.avatarUrl, t)
         IN [kind |-> "ok", store |-> store \cup {row}, val |-> {row}]

\* a plausible slip: the row's own username counts as taken
UserUpdateRejectsOwnName(store, id, data, t) ==
    IF UserFindById(store, id) = {}
    THEN [kind |-> "P2025", store |-> store, val |-> {}]
    ELSE IF UserConflicts(store, data) # {}
    THEN [kind |-> "P2002", store |-> store, val |-> {}]
    ELSE LET old == CHOOSE u \in store : u.id = id
             new == [old EXCEPT
                        !.username = IF data.username = {} THEN @
                                     ELSE data.username,
                        !.avatarUrl = IF data.avatarUrl = {} THEN @
                                      ELSE data.avatarUrl,
                        !.updatedAt = t]
         IN [kind |-> "ok", store |-> (store \ {old}) \cup {new},
             val |-> {new}]

\* userRepository.update: only the fields present in data are written; a
\* missing row is Prisma P2025, a username another row holds is P2002
UserUpdate(store, id, data, t) ==
    IF UserFindById(store, id) = {}
    THEN [kind |-> "P2025", store |-> store, val |-> {}]
    ELSE IF \E u \in UserConflicts(store, data) : u.id # id
    THEN [kind |-> "P2002", store |-> store, val |-> {}]
    ELSE LET old == CHOOSE u \in store : u.id = id
             new == [old EXCEPT
                        !.username = IF data.username = {} THEN @
                                     ELSE data.username,
                        !.avatarUrl = IF data.avatarUrl = {} THEN @
                                      ELSE data.avatarUrl,
                        !.updatedAt = t]
         IN [kind |-> "ok", store |-> (store \ {old}) \cup {new},
             val |-> {new}]

\* ------------------------------------------------------------ review store

\* reviewRepository.findById
ReviewFindById(store, id) == {r \in store : r.id = id}

\* a plausible slip: the lookup has lost its where clause
ReviewFindByUserAndMovieUnkeyed(store, u, m) == store

\* reviewRepository.findByUserAndMovie (the unique (userId, movieId) key)
ReviewFindByUserAndMovie(store, u, m) ==
    {r \in store : r.userId = u /\ r.movieId = m}

\* the Int column: Prisma rejects a non-integer number for "rating Int"
\* before any query is sent
IsInt(r) == r.tenths = 0

\* a plausible slip: the table without its unique (user_id, movie_id) index
ReviewCreateNoUniqueIndex(store, us, ms, data, id, t) ==
    IF ~IsInt(data.rating)
    THEN [kind |-> "PrismaValidation", store |-> store, val |-> {}]
    ELSE IF data.userId \notin us \/ data.movieId \notin DOMAIN ms
    THEN [kind |-> "P2003", store |-> store, val |-> {}]
    ELSE LET row == [id |-> id, userId |-> data.userId,
                     movieId |-> data.movieId, rating |-> data.rating.whole,
                     content |-> data.content, createdAt |-> t,
                     updatedAt |-> t]
         IN [kind |-> "ok", store |-> store \cup {row}, val |-> {row}]

\* a plausible slip: the table without its foreign key to movies
ReviewCreateNoMovieFk(store, us, ms, data, id, t) ==
    IF ~IsInt(data.rating)
    THEN [kind |-> "PrismaValidation", store |-> store, val |-> {}]
    ELSE IF ReviewFindByUserAndMovie(store, data.userId, data.movieId) # {}
    THEN [kind |-> "P2002", store |-> store, val |-> {}]
    ELSE IF data.userId \notin us
    THEN [kind |-> "P2003", store |-> store, val |-> {}]
    ELSE LET row == [id |-> id, userId |-> data.userId,
                     movieId |-> data.movieId, rating |-> data.rating.whole,
                     content |-> data.content, createdAt |-> t,
                     updatedAt |-> t]
         IN [kind |-> "ok", store |-> store \cup {row}, val |-> {row}]

\* reviewRepository.create under the table's constraints: the unique index
\* movie_reviews_user_id_movie_id_key rejects a second row for the pair
\* (Prisma P2002), the foreign keys to users and movies reject a row whose
\* user or movie has no row (Prisma P2003); otherwise the row is inserted
\* with a new id and created_at = updated_at = now.  The column is an
\* INTEGER and nothing else constrains the rating.
ReviewCreate(store, us, ms, data, id, t) ==
    IF ~IsInt(data.rating)
    THEN [kind |-> "PrismaValidation", store |-> store, val |-> {}]
    ELSE IF ReviewFindByUserAndMovie(store, data.userId, data.movieId) # {}
    THEN [kind |-> "P2002", store |-> store, val |-> {}]
    ELSE IF data.userId \notin us \/ data.movieId \notin DOMAIN ms
    THEN [kind |-> "P2003", store |-> store, val |-> {}]
    ELSE LET row == [id |-> id, userId |-> data.userId,
                     movieId |-> data.movieId, rating |-> data.rating.whole,
                     content |-> data.content, createdAt |-> t,
                     updatedAt |-> t]
         IN [kind |-> "ok", store |-> store \cup {row}, val |-> {row}]

\* a plausible slip: a field the payload leaves out is written as null
ReviewUpdateClearsAbsent(store, id, data, t) ==
    IF \E r \in data.rating : ~IsInt(r)
    THEN [kind |-> "PrismaValidation", store |-> store, val |-> {}]
    ELSE IF ReviewFindById(store, id) = {}
    THEN [kind |-> "P2025", store |-> store, val |-> {}]
    ELSE LET old == CHOOSE r \in store : r.id = id
             new == [old EXCEPT
                        !.rating = IF data.rating = {} THEN @
                                   ELSE (CHOOSE x \in data.rating : TRUE).whole,
                        !.content = IF data.content = {} THEN "NULL"
                                    ELSE CHOOSE x \in data.content : TRUE,
                        !.updatedAt = t]
         IN [kind |-> "ok", store |-> (store \ {old}) \cup {new},
             val |-> {new}]

\* reviewRepository.update: only the fields present in data are written
\* (an absent field is the empty set); a missing row is Prisma P2025
ReviewUpdate(store, id, data, t) ==
    IF \E r \in data.rating : ~IsInt(r)
    THEN [kind |-> "PrismaValidation", store |-> store, val |-> {}]
    ELSE IF ReviewFindById(store, id) = {}
    THEN [kind |-> "P2025", store |-> store, val |-> {}]
    ELSE LET old == CHOOSE r \in store : r.id = id
             new == [old EXCEPT
                        !.rating = IF data.rating = {} THEN @
                                   ELSE (CHOOSE x \in data.rating : TRUE).whole,
                        !.content = IF data.content = {} THEN @
                                    ELSE CHOOSE x \in data.content : TRUE,
                        !.updatedAt = t]
         IN [kind |-> "ok", store |-> (store \ {old}) \cup {new},
             val |-> {new}]

\* a plausible slip: the delete is keyed by the movie of the row
ReviewDeleteWholeMovie(store, id) ==
    IF ReviewFindById(store, id) = {}
    THEN [kind |-> "P2025", store |-> store, val |-> {}]
    ELSE [kind |-> "ok",
          store |-> {r \in store :
                        \A d \in ReviewFindById(store, id) :
                            r.movieId # d.movieId},
          val |-> ReviewFindById(store, id)]

\* reviewRepository.delete: the deleted row is returned; a missing row is
\* Prisma P2025
ReviewDelete(store, id) ==
    IF ReviewFindById(store, id) = {}
    THEN [kind |-> "P2025", store |-> store, val |-> {}]
    ELSE [kind |-> "ok", store |-> store \ ReviewFindById(store, id),
          val |-> ReviewFindById(store, id)]

\* ----------------------------------------------------------- review service

\* a plausible slip: only the range is tested, so 7.5 passes
ValidRatingRangeOnly(r) ==
    /\ r.whole >= MIN_RATING
    /\ r.whole < MAX_RATING \/ (r.whole = MAX_RATING /\ r.tenths = 0)

\* a plausible slip: only integrality is tested, so 0 and 11 pass
ValidRatingIntegerOnly(r) == r.tenths = 0

\* "rating must be integer 1-10"
ValidRating(r) ==
    /\ r.tenths = 0
    /\ r.whole >= MIN_RATING
    /\ r.whole <= MAX_RATING

\* a plausible slip: a review of another user is reported as missing
MutationCheckHidesForeign(f, userId, rating) ==
    IF f = {} \/ \E row \in f : row.userId # userId THEN "NotFound"
    ELSE IF \E r \in rating : ~ValidRating(r) THEN "Validation"
    ELSE "pass"

\* a plausible slip: the payload is validated before the ownership check
MutationCheckValidatesFirst(f, userId, rating) ==
    IF f = {} THEN "NotFound"
    ELSE IF \E r \in rating : ~ValidRating(r) THEN "Validation"
    ELSE IF \E row \in f : row.userId # userId THEN "Forbidden"
    ELSE "pass"

\* the checks of updateReview and deleteReview on the row f that findById
\* returned, in their order: NotFoundError if missing, ForbiddenError if
\* review.userId !== userId, then the rating if one was provided
MutationCheck(f, userId, rating) ==
    IF f = {} THEN "NotFound"
    ELSE IF \E row \in f : row.userId # userId THEN "Forbidden"
    ELSE IF \E r \in rating : ~ValidRating(r) THEN "Validation"
    ELSE "pass"

\* createReview(userId, movieId, {rating, content}) is invoked; the rating is
\* validated before anything is awaited
CreateReviewCall(p, u, m, r, c) ==
    /\ Begin(p, [op |-> "createReview", userId |-> u, movieId |-> m,
                 rating |-> r, content |-> c])
    /\ IF ValidRating(r)
       THEN /\ pc' = [pc EXCEPT ![p] = "rc_find"]
            /\ UNCHANGED <<res, startedAt>>
       ELSE Finish(p, [kind |-> "Validation", val |-> {}])
    /\ UNCHANGED <<now, movies, users, reviews, nextReview>>

\* findByUserAndMovie resolves: "You have already reviewed this movie".  The
\* row is tested in the same continuation and not read again, so it is not
\* kept in the request's state (likewise for findById below).
CreateReviewFind(p) ==
    /\ pc[p] = "rc_find"
    /\ LET f == ReviewFindByUserAndMovie(reviews, call[p].userId,
                                         call[p].movieId) IN
        /\ IF f # {}
           THEN Finish(p, [kind |-> "Validation", val |-> {}])
           ELSE /\ pc' = [pc EXCEPT ![p] = "rc_create"]
                /\ UNCHANGED <<res, startedAt>>
    /\ UNCHANGED <<now, movies, users, reviews, nextReview, call, found,
                   fetched, providerCalls, writes>>

\* reviewRepo.create resolves or rejects; a rejection is not caught
CreateReviewCreate(p) ==
    /\ pc[p] = "rc_create"
    /\ LET out == ReviewCreate(reviews, UserIdsOf(users), movies,
                               [userId |-> call[p].userId,
                                movieId |-> call[p].movieId,
                                rating |-> call[p].rating,
                                content |-> call[p].content],
                               nextReview + 1, now) IN
        /\ out.kind = "ok" => nextReview < MaxReviews
        /\ reviews' = out.store
        /\ nextReview' = IF out.kind = "ok" THEN nextReview + 1 ELSE nextReview
        /\ writes' = [writes EXCEPT ![p] = IF out.kind = "ok" THEN 1 ELSE 0]
        /\ Finish(p, [kind |-> out.kind, val |-> out.val])
    /\ UNCHANGED <<now, movies, users, call, found, fetched, providerCalls>>

\* updateReview(reviewId, userId, {rating?, content?}) is invoked
UpdateReviewCall(p, id, u, r, c) ==
    /\ Begin(p, [op |-> "updateReview", reviewId |-> id, userId |-> u,
                 rating |-> r, content |-> c])
    /\ pc' = [pc EXCEPT ![p] = "ru_find"]
    /\ UNCHANGED <<res, startedAt>>
    /\ UNCHANGED <<now, movies, users, reviews, nextReview>>

\* findById resolves; the three checks run on its result
UpdateReviewFind(p) ==
    /\ pc[p] = "ru_find"
    /\ LET f == ReviewFindById(reviews, call[p].reviewId)
           v == MutationCheck(f, call[p].userId, call[p].rating) IN
        /\ IF v = "pass"
           THEN /\ pc' = [pc EXCEPT ![p] = "ru_update"]
                /\ UNCHANGED <<res, startedAt>>
           ELSE Finish(p, [kind |-> v, val |-> {}])
    /\ UNCHANGED <<now, movies, users, reviews, nextReview, call, found,
                   fetched, providerCalls, writes>>

\* reviewRepo.update resolves or rejects
UpdateReviewUpdate(p) ==
    /\ pc[p] = "ru_update"
    /\ LET out == ReviewUpdate(reviews, call[p].reviewId,
                               [rating |-> call[p].rating,
                                content |-> call[p].content], now) IN
        /\ reviews' = out.store
        /\ writes' = [writes EXCEPT ![p] = IF out.kind = "ok" THEN 1 ELSE 0]
        /\ Finish(p, [kind |-> out.kind, val |-> out.val])
    /\ UNCHANGED <<now, movies, users, nextReview, call, found, fetched,
                   providerCalls>>

\* deleteReview(reviewId, userId) is invoked
DeleteReviewCall(p, id, u) ==
    /\ Begin(p, [op |-> "deleteReview", reviewId |-> id, userId |-> u,
                 rating |-> {}])
    /\ pc' = [pc EXCEPT ![p] = "rd_find"]
    /\ UNCHANGED <<res, startedAt>>
    /\ UNCHANGED <<now, movies, users, reviews, nextReview>>

\* findById resolves; same find + ownership check pattern as update
DeleteReviewFind(p) ==
    /\ pc[p] = "rd_find"
    /\ LET f == ReviewFindById(reviews, call[p].reviewId)
           v == MutationCheck(f, call[p].userId, {}) IN
        /\ IF v = "pass"
           THEN /\ pc' = [pc EXCEPT ![p] = "rd_delete"]
                /\ UNCHANGED <<res, startedAt>>
           ELSE Finish(p, [kind |-> v, val |-> {}])
    /\ UNCHANGED <<now, movies, users, reviews, nextReview, call, found,
                   fetched, providerCalls, writes>>

\* reviewRepo.delete resolves or rejects
DeleteReviewDelete(p) ==
    /\ pc[p] = "rd_delete"
    /\ LET out == ReviewDelete(reviews, call[p].reviewId) IN
        /\ reviews' = out.store
        /\ writes' = [writes EXCEPT ![p] = IF out.kind = "ok" THEN 1 ELSE 0]
        /\ Finish(p, [kind |-> out.kind, val |-> out.val])
    /\ UNCHANGED <<now, movies, users, nextReview, call, found, fetched,
                   providerCalls>>

\* the rows a review refers to are put in place through the repositories,
\* as the review tests' beforeEach does: userRepo.create ...
SeedUser(u) ==
    /\ u \notin UserIdsOf(users)
    /\ users' = users \cup {UserRow(u, u, u, {}, {}, now)}
    /\ UNCHANGED <<now, movies, reviews, nextReview>>
    /\ UNCHANGED procVars

\* ... and movieRepo.upsert
SeedMovie(m) ==
    /\ m \notin DOMAIN movies
    /\ movies' = MovieUpsert(movies, m, [title |-> "Fight Club"], now)
    /\ UNCHANGED <<now, users, reviews, nextReview>>
    /\ UNCHANGED procVars

ReviewSeed ==
    \/ \E u \in UserIds : SeedUser(u)
    \/ \E m \in ReviewMovieIds : SeedMovie(m)

CreateReviewNext ==
    \/ \E p \in Procs, u \in UserIds, m \in ReviewMovieIds,
          r \in RatingInputs, c \in CreateContents :
            CreateReviewCall(p, u, m, r, c)
    \/ \E p \in Procs : CreateReviewFind(p)
    \/ \E p \in Procs : CreateReviewCreate(p)

UpdateReviewNext ==
    \/ \E p \in Updaters, id \in ReviewIds, u \in UserIds, d \in UpdatePayloads :
            UpdateReviewCall(p, id, u, d.rating, d.content)
    \/ \E p \in Procs : UpdateReviewFind(p)
    \/ \E p \in Procs : UpdateReviewUpdate(p)

DeleteReviewNext ==
    \/ \E p \in Procs, id \in ReviewIds, u \in UserIds :
            DeleteReviewCall(p, id, u)
    \/ \E p \in Procs : DeleteReviewFind(p)
    \/ \E p \in Procs : DeleteReviewDelete(p)

\* the review service under concurrent requests
ReviewNext ==
    \/ ReviewSeed
    \/ \E p \in Procs : Return(p)
    \/ CreateReviewNext
    \/ UpdateReviewNext
    \/ DeleteReviewNext

SpecReview == Init /\ [][ReviewNext]_vars

\* --------------------------------------------- repository used directly

\* ratings handed straight to the repository: the repository tests pass
\* plain integers; nothing on this path checks their range (0 and 11 are
\* the integers next to the 1..10 range)
RepoRatings == {Num(0, 0), Num(11, 0)}

\* reviewRepo.create(data) called by a client of the repository that is not
\* the review service (the repository tests do so)
RepoCreate(u, m, r, c) ==
    /\ LET out == ReviewCreate(reviews, UserIdsOf(users), movies,
                               [userId |-> u, movieId |-> m, rating |-> r,
                                content |-> c],
                               nextReview + 1, now) IN
        /\ out.kind = "ok" => nextReview < MaxReviews
        /\ reviews' = out.store
        /\ nextReview' = IF out.kind = "ok" THEN nextReview + 1 ELSE nextReview
    /\ UNCHANGED <<now, movies, users>>
    /\ UNCHANGED procVars

\* reviewRepo.update(id, {rating}) called the same way
RepoUpdate(id, r) ==
    /\ reviews' = ReviewUpdate(reviews, id, [rating |-> {r}, content |-> {}],
                               now).store
    /\ UNCHANGED <<now, movies, users, nextReview>>
    /\ UNCHANGED procVars

\* the review service next to a direct client of the repository
ReviewRepoNext ==
    \/ ReviewSeed
    \/ \E p \in Procs : Return(p)
    \/ CreateReviewNext
    \/ UpdateReviewNext
    \/ \E u \in Reviewers, m \in ReviewMovieIds, r \in RepoRatings,
          c \in CreateContents : RepoCreate(u, m, r, c)
    \/ \E id \in ReviewIds, r \in RepoRatings : RepoUpdate(id, r)

SpecReviewRepo == Init /\ [][ReviewRepoNext]_vars

\* ------------------------------------------------------ editing a review

\* updateReview payloads with every combination of supplied fields
PartialPayloads ==
    {[rating |-> {}, content |-> {}],
     [rating |-> {}, content |-> {"Changed my mind"}],
     [rating |-> {Num(3, 0)}, content |-> {}],
     [rating |-> {Num(3, 0)}, content |-> {"Changed my mind"}]}

\* the rating of a review that is about to be edited
EditedRatings == {Num(8, 0)}

\* reviews are written through the repository and then edited through the
\* service while the clock advances
ReviewEditNext ==
    \/ ReviewSeed
    \/ Tick
    \/ \E p \in Procs : Return(p)
    \/ \E u \in UserIds, m \in ReviewMovieIds, r \in EditedRatings,
          c \in CreateContents : RepoCreate(u, m, r, c)
    \/ \E p \in Updaters, id \in ReviewIds, u \in Reviewers,
          d \in PartialPayloads :
            UpdateReviewCall(p, id, u, d.rating, d.content)
    \/ \E p \in Procs : UpdateReviewFind(p)
    \/ \E p \in Procs : UpdateReviewUpdate(p)

SpecReviewEdit == Init /\ [][ReviewEditNext]_vars

\* ------------------------------------------------------------- user service

\* findOrCreateUser(auth0Id, email) is invoked
FindOrCreateUserCall(p, a, e) ==
    /\ Begin(p, [op |-> "findOrCreateUser", auth0Id |-> a, email |-> e])
    /\ pc' = [pc EXCEPT ![p] = "fu_find"]
    /\ UNCHANGED <<res, startedAt>>
    /\ UNCHANGED <<now, movies, users, reviews, nextReview>>

\* a plausible slip: the stored e-mail is brought in line with the caller's
UsersAfterFoundSyncsEmail(store, f, email, t) ==
    IF \E u \in store : u \notin f /\ u.email = email THEN store
    ELSE (store \ f) \cup {[u EXCEPT !.email = email, !.updatedAt = t] :
                              u \in f}

\* what findOrCreateUser leaves in the user store when its lookup found the
\* row f: "if found, return", nothing is written
UsersAfterFound(store, f, email, t) == store

\* "Find by auth0Id -> if found, return"
FindOrCreateUserFind(p) ==
    /\ pc[p] = "fu_find"
    /\ LET f == UserFindByAuth0Id(users, call[p].auth0Id) IN
        IF f # {}
        THEN /\ users' = UsersAfterFound(users, f, call[p].email, now)
             /\ Finish(p, [kind |-> "ok", val |-> f])
        ELSE /\ pc' = [pc EXCEPT ![p] = "fu_create"]
             /\ UNCHANGED <<users, res, startedAt>>
    /\ UNCHANGED <<now, movies, reviews, nextReview, call, found,
                   fetched, providerCalls, writes>>

\* a plausible slip: every failed create leads to the retry
AfterUserCreateRetriesAll(kind) ==
    IF kind = "ok" THEN "return" ELSE "retry"

\* what findOrCreateUser does with the outcome of userRepo.create: the new
\* row is returned, a unique-constraint error leads to the retry, any other
\* error is thrown on
AfterUserCreate(kind) ==
    IF kind = "ok" THEN "return"
    ELSE IF kind = "P2002" THEN "retry"
    ELSE "throw"

\* "If not found -> create": userRepo.create resolves, is rejected by a
\* unique index, or fails for another reason (the database is unreachable)
FindOrCreateUserCreate(p) ==
    /\ pc[p] = "fu_create"
    /\ \E out \in {UserCreate(users, [auth0Id |-> call[p].auth0Id,
                                      email |-> call[p].email,
                                      username |-> {}, avatarUrl |-> {}],
                              now),
                   [kind |-> "DbError", store |-> users, val |-> {}]} :
        /\ out.kind = "ok" => Cardinality(users) < MaxUsers
        /\ users' = out.store
        /\ writes' = [writes EXCEPT ![p] = IF out.kind = "ok" THEN 1 ELSE 0]
        /\ IF AfterUserCreate(out.kind) = "retry"
           THEN /\ pc' = [pc EXCEPT ![p] = "fu_retry"]
                /\ UNCHANGED <<res, startedAt>>
           ELSE Finish(p, [kind |-> out.kind, val |-> out.val])
    /\ UNCHANGED <<now, movies, reviews, nextReview, call, found, fetched,
                   providerCalls>>

\* the outcome of the retried lookup: its row, or a fatal error when it
\* finds none
OnRetryLookup(f) ==
    IF f = {} THEN [kind |-> "Fatal", val |-> {}]
    ELSE [kind |-> "ok", val |-> f]

\* "retry findByAuth0Id": the second lookup resolves and the call ends
FindOrCreateUserRetry(p) ==
    /\ pc[p] = "fu_retry"
    /\ Finish(p, OnRetryLookup(UserFindByAuth0Id(users, call[p].auth0Id)))
    /\ UNCHANGED <<now, movies, users, reviews, nextReview, call, found,
                   fetched, providerCalls, writes>>

\* updateProfile(userId, {username?, avatarUrl?}) is invoked
UpdateProfileCall(p, id, d) ==
    /\ Begin(p, [op |-> "updateProfile", userId |-> id,
                 username |-> d.username, avatarUrl |-> d.avatarUrl])
    /\ pc' = [pc EXCEPT ![p] = "up_update"]
    /\ UNCHANGED <<res, startedAt>>
    /\ UNCHANGED <<now, movies, users, reviews, nextReview>>

\* the error updateProfile throws for a Prisma error of userRepo.update
ProfileError(kind) ==
    IF kind = "P2025" THEN "NotFound"
    ELSE IF kind = "P2002" THEN "Validation"
    ELSE kind

\* "Delegates to repo": userRepo.update resolves or rejects
UpdateProfileUpdate(p) ==
    /\ pc[p] = "up_update"
    /\ LET out == UserUpdate(users, call[p].userId,
                             [username |-> call[p].username,
                              avatarUrl |-> call[p].avatarUrl], now) IN
        /\ users' = out.store
        /\ writes' = [writes EXCEPT ![p] = IF out.kind = "ok" THEN 1 ELSE 0]
        /\ Finish(p, [kind |-> ProfileError(out.kind), val |-> out.val])
    /\ UNCHANGED <<now, movies, reviews, nextReview, call, found, fetched,
                   providerCalls>>

\* userRepo.create(data) called by a client of the repository that is not
\* the user service (the repository tests do so, also with a username)
UserRepoCreate(a, e, un) ==
    /\ LET out == UserCreate(users, [auth0Id |-> a, email |-> e,
                                     username |-> un, avatarUrl |-> {}],
                             now) IN
        /\ out.kind = "ok" => Cardinality(users) < MaxUsers
        /\ users' = out.store
    /\ UNCHANGED <<now, movies, reviews, nextReview>>
    /\ UNCHANGED procVars

FindOrCreateUserNext ==
    \/ \E p \in Procs, a \in Auth0Ids, e \in Emails :
            FindOrCreateUserCall(p, a, e)
    \/ \E p \in Procs : FindOrCreateUserFind(p)
    \/ \E p \in Procs : FindOrCreateUserCreate(p)
    \/ \E p \in Procs : FindOrCreateUserRetry(p)

UpdateProfileNext ==
    \/ \E p \in Updaters, id \in 1 .. MaxUsers, d \in ProfilePayloads :
            UpdateProfileCall(p, id, d)
    \/ \E p \in Procs : UpdateProfileUpdate(p)

\* the user service under concurrent requests, next to a direct client of
\* the user repository
UserNext ==
    \/ \E p \in Procs : Return(p)
    \/ FindOrCreateUserNext
    \/ UpdateProfileNext
    \/ \E a \in Auth0Ids, e \in Emails, un \in {{}, {"neo"}} :
            UserRepoCreate(a, e, un)

SpecUser == Init /\ [][UserNext]_vars

\* ------------------------------------------------------- review read side

\* greatest common divisor, for exact means
RECURSIVE GCD(_, _)
GCD(a, b) == IF b = 0 THEN a ELSE GCD(b, a % b)

\* the exact quotient n / d as a fraction in lowest terms (the database
\* computes AVG exactly; 14 / 2 is 7 / 1)
Ratio(n, d) == [num |-> n \div GCD(n, d), den |-> d \div GCD(n, d)]

RECURSIVE SumRatings(_)
SumRatings(rows) ==
    IF rows = {} THEN 0
    ELSE LET r == CHOOSE x \in rows : TRUE
         IN r.rating + SumRatings(rows \ {r})

\* the rows of one movie
ReviewsOfMovie(store, m) == {r \in store : r.movieId = m}

\* a plausible slip: the average is taken over every stored review
ReviewAverageRatingAllMovies(store, m) ==
    IF store = {} THEN {}
    ELSE {Ratio(SumRatings(store), Cardinality(store))}

\* reviewRepository.averageRating: aggregate _avg over the rows with the
\* movieId; null (the empty set) when there is none
ReviewAverageRating(store, m) ==
    IF ReviewsOfMovie(store, m) = {} THEN {}
    ELSE {Ratio(SumRatings(ReviewsOfMovie(store, m)),
                Cardinality(ReviewsOfMovie(store, m)))}

\* the orders "createdAt desc" allows for a set of rows (rows created at the
\* same instant come in either order)
NewestFirst(rows) ==
    {s \in [1 .. Cardinality(rows) -> rows] :
        /\ \A i, j \in DOMAIN s : i # j => s[i] # s[j]
        /\ \A i, j \in DOMAIN s : i < j => s[i].createdAt >= s[j].createdAt}

\* skip (page - 1) * pageSize, take pageSize
PageOf(s, page, pageSize) ==
    LET from == (page - 1) * pageSize + 1
        to == IF page * pageSize < Len(s) THEN page * pageSize ELSE Len(s)
    IN IF from > Len(s) THEN <<>> ELSE SubSeq(s, from, to)

\* reviewRepository.findByMovie: the possible result pages
ReviewFindByMovie(store, m, page, pageSize) ==
    {PageOf(s, page, pageSize) : s \in NewestFirst(ReviewsOfMovie(store, m))}

\* the request slot that issues the listing calls (the calls only read, so
\* they interfere with writers, not with each other)
Readers == {"p1"}
\* page arguments of the listing calls
ListPages == {1, 2}
ListPageSizes == {1, 2}
\* ratings of the reviews that are listed ("ratings 8 and 6 give 7")
ListedRatings == {Num(6, 0), Num(8, 0)}

\* getMovieReviews(movieId, page, pageSize) is invoked: both queries of the
\* Promise.all are sent
GetMovieReviewsCall(p, m, page, pageSize) ==
    /\ Begin(p, [op |-> "getMovieReviews", movieId |-> m, page |-> page,
                 pageSize |-> pageSize])
    /\ pc' = [pc EXCEPT ![p] = "gm_both"]
    /\ UNCHANGED <<res, startedAt>>
    /\ UNCHANGED <<now, movies, users, reviews, nextReview>>

\* the result of getMovieReviews once both queries have resolved
MovieReviewsResult(part1, part2) ==
    [kind |-> "ok",
     val |-> {[reviews |-> IF "reviews" \in DOMAIN part1 THEN part1.reviews
                           ELSE part2.reviews,
               averageRating |-> IF "avg" \in DOMAIN part1 THEN part1.avg
                                 ELSE part2.avg]}]

\* one of the two queries resolves with `part`; the call returns when the
\* other one has resolved too
GetMovieReviewsResolve(p, part, waitingFor) ==
    IF pc[p] = "gm_both"
    THEN /\ pc' = [pc EXCEPT ![p] = waitingFor]
         /\ found' = [found EXCEPT ![p] = {part}]
         /\ UNCHANGED <<res, startedAt>>
    ELSE /\ Finish(p, MovieReviewsResult(part, CHOOSE x \in found[p] : TRUE))
         /\ UNCHANGED found

\* findByMovie resolves
GetMovieReviewsPage(p) ==
    /\ pc[p] \in {"gm_both", "gm_page"}
    /\ \E s \in ReviewFindByMovie(reviews, call[p].movieId, call[p].page,
                                  call[p].pageSize) :
            GetMovieReviewsResolve(p, [reviews |-> s], "gm_avg")
    /\ UNCHANGED <<now, movies, users, reviews, nextReview, call, fetched,
                   providerCalls, writes>>

\* averageRating resolves
GetMovieReviewsAvg(p) ==
    /\ pc[p] \in {"gm_both", "gm_avg"}
    /\ GetMovieReviewsResolve(
            p, [avg |-> ReviewAverageRating(reviews, call[p].movieId)],
            "gm_page")
    /\ UNCHANGED <<now, movies, users, reviews, nextReview, call, fetched,
                   providerCalls, writes>>

GetMovieReviewsNext ==
    \/ \E p \in Readers, m \in MovieIds, page \in ListPages,
          pageSize \in ListPageSizes :
            GetMovieReviewsCall(p, m, page, pageSize)
    \/ \E p \in Procs : GetMovieReviewsPage(p)
    \/ \E p \in Procs : GetMovieReviewsAvg(p)

\* readers of the review list next to writers of reviews
ReviewReadNext ==
    \/ \E u \in UserIds : SeedUser(u)
    \/ \E m \in MovieIds : SeedMovie(m)
    \/ \E p \in Procs : Return(p)
    \/ \E u \in UserIds, m \in MovieIds, r \in ListedRatings,
          c \in CreateContents : RepoCreate(u, m, r, c)
    \/ GetMovieReviewsNext

SpecReviewRead == Init /\ [][ReviewReadNext]_vars

\* ----------------------------------------------------------- review listing

\* findByMovie / findByUser: "page: number = 1, pageSize: number = 20"
DEFAULT_PAGE == 1
DEFAULT_PAGE_SIZE == 20

\* a parameter with a default value: the argument if one is passed
OrDefault(arg, d) == IF arg = {} THEN d ELSE CHOOSE x \in arg : TRUE

\* the rows of one user
ReviewsOfUser(store, u) == {r \in store : r.userId = u}

\* reviewRepository.findByUser: the possible result pages
ReviewFindByUser(store, u, page, pageSize) ==
    {PageOf(s, OrDefault(page, DEFAULT_PAGE),
            OrDefault(pageSize, DEFAULT_PAGE_SIZE)) :
        s \in NewestFirst(ReviewsOfUser(store, u))}

\* the arguments of the listing calls, an argument left out being the empty
\* set: one request slot asks for the first page, with and without a page
\* size, the other for the second page of size 1
ListArgs ==
    [p1 |-> {[page |-> {}, pageSize |-> {}], [page |-> {}, pageSize |-> {1}]},
     p2 |-> {[page |-> {2}, pageSize |-> {1}]}]
\* the keys that are listed, and the reviews written for them
ListedMovies == {550}
ListedUsers == {"u1"}
ListedPairs == {<<"u1", 550>>, <<"u2", 550>>, <<"u1", 551>>}

\* getUserReviews(userId, page?, pageSize?) is invoked
GetUserReviewsCall(p, u, page, pageSize) ==
    /\ Begin(p, [op |-> "getUserReviews", userId |-> u, page |-> page,
                 pageSize |-> pageSize])
    /\ pc' = [pc EXCEPT ![p] = "gu_find"]
    /\ UNCHANGED <<res, startedAt>>
    /\ UNCHANGED <<now, movies, users, reviews, nextReview>>

\* "Delegates to findByUser": the query resolves
GetUserReviewsFind(p) ==
    /\ pc[p] = "gu_find"
    /\ \E s \in ReviewFindByUser(reviews, call[p].userId, call[p].page,
                                 call[p].pageSize) :
            Finish(p, [kind |-> "ok", val |-> {[reviews |-> s]}])
    /\ UNCHANGED <<now, movies, users, reviews, nextReview, call, found,
                   fetched, providerCalls, writes>>

\* a review is written while no listing call is in flight or holds a result:
\* the calls that are compared read one and the same store
ListedCreate(u, m, r, c) ==
    /\ \A p \in Procs : pc[p] = "idle"
    /\ RepoCreate(u, m, r, c)

\* the users and movies the listed reviews refer to are put in place
\* together, before the first review is written (the tests' beforeEach)
ListedSeed ==
    /\ users = {}
    /\ movies = <<>>
    /\ users' = {UserRow(u, u, u, {}, {}, now) : u \in UserIds}
    /\ movies' = MovieUpsert(MovieUpsert(movies, 550,
                                         [title |-> "Fight Club"], now),
                             551, [title |-> "Fight Club"], now)
    /\ UNCHANGED <<now, reviews, nextReview>>
    /\ UNCHANGED procVars

\* both listings over a store that is written between the readings
ReviewListNext ==
    \/ ListedSeed
    \/ Tick
    \/ \E p \in Procs : Return(p)
    \/ \E k \in ListedPairs, r \in EditedRatings, c \in CreateContents :
            ListedCreate(k[1], k[2], r, c)
    \/ \E p \in Procs, m \in ListedMovies :
        \E a \in ListArgs[p] :
            GetMovieReviewsCall(p, m, OrDefault(a.page, DEFAULT_PAGE),
                                OrDefault(a.pageSize, DEFAULT_PAGE_SIZE))
    \/ \E p \in Procs : GetMovieReviewsPage(p)
    \/ \E p \in Procs : GetMovieReviewsAvg(p)
    \/ \E p \in Procs, u \in ListedUsers :
        \E a \in ListArgs[p] :
            GetUserReviewsCall(p, u, a.page, a.pageSize)
    \/ \E p \in Procs : GetUserReviewsFind(p)

SpecReviewList == Init /\ [][ReviewListNext]_vars

\* ------------------------------------------------------------ all services

\* one request slot calls the movie service's getMovie, the other one every
\* other operation of the three services
MovieCallers == {"p1"}
OtherCallers == {"p2"}
\* the user that findOrCreateUser creates first, and its reviews' payloads
FirstUser == 1
SomeRatings == {Num(10, 0)}
SomeUpdates == {[rating |-> {Num(1, 0)}, content |-> {}]}
SomeProfiles == {[username |-> {"neo"}, avatarUrl |-> {}]}

\* getMovie next to the list endpoints, the user service and the review
\* service
AllServicesNext ==
    \/ Tick
    \/ \E p \in Procs : Return(p)
    \/ \E p \in MovieCallers, id \in ReviewMovieIds : GetMovieCall(p, id)
    \/ \E p \in Procs : GetMovieFind(p)
    \/ \E p \in Procs : GetMovieFetch(p)
    \/ \E p \in Procs : GetMovieUpsert(p)
    \/ \E p \in OtherCallers, page \in Pages :
            ListCall(p, "getTrending", "", page)
    \/ \E p \in OtherCallers :
            FindOrCreateUserCall(p, "a1", "e1")
    \/ \E p \in Procs : FindOrCreateUserFind(p)
    \/ \E p \in Procs : FindOrCreateUserCreate(p)
    \/ \E p \in OtherCallers, d \in SomeProfiles :
            UpdateProfileCall(p, FirstUser, d)
    \/ \E p \in Procs : UpdateProfileUpdate(p)
    \/ \E p \in OtherCallers, r \in SomeRatings, c \in CreateContents :
            CreateReviewCall(p, FirstUser, 550, r, c)
    \/ \E p \in Procs : CreateReviewFind(p)
    \/ \E p \in Procs : CreateReviewCreate(p)
    \/ \E p \in OtherCallers, id \in ReviewIds, d \in SomeUpdates :
            UpdateReviewCall(p, id, FirstUser, d.rating, d.content)
    \/ \E p \in Procs : UpdateReviewFind(p)
    \/ \E p \in Procs : UpdateReviewUpdate(p)
    \/ \E p \in OtherCallers, id \in ReviewIds :
            DeleteReviewCall(p, id, FirstUser)
    \/ \E p \in Procs : DeleteReviewFind(p)
    \/ \E p \in Procs : DeleteReviewDelete(p)

SpecAllServices == Init /\ [][AllServicesNext]_vars

\* ------------------------------------------------------------ disjoint keys

\* each request slot works for its own user on its own movie: every call of
\* one slot is on another (userId, movieId) pair and another movie id than
\* every call of the other slot
Owner == [p1 |-> "u1", p2 |-> "u2"]
OwnMovie == [p1 |-> 550, p2 |-> 551]

\* both users are in place before the first call (userRepo.create)
DisjointSeed ==
    /\ users = {}
    /\ users' = {UserRow(u, u, u, {}, {}, now) : u \in UserIds}
    /\ UNCHANGED <<now, movies, reviews, nextReview>>
    /\ UNCHANGED procVars

\* the clock advances between the rounds of calls, not within one (the
\* interleavings of a round are compared at one instant), and by the length
\* of the freshness window, after which every stored movie is stale
QuietTick ==
    /\ \A p \in Procs : pc[p] = "idle"
    /\ now + FRESH_WINDOW_HOURS <= MaxTime
    /\ now' = now + FRESH_WINDOW_HOURS
    /\ UNCHANGED <<movies, users, reviews, nextReview>>
    /\ UNCHANGED procVars

\* updateReview / deleteReview of a review the slot's user has written
OwnUpdateReviewCall(p, id, d) ==
    /\ \E r \in reviews : r.id = id /\ r.userId = Owner[p]
    /\ UpdateReviewCall(p, id, Owner[p], d.rating, d.content)

OwnDeleteReviewCall(p, id) ==
    /\ \E r \in reviews : r.id = id /\ r.userId = Owner[p]
    /\ DeleteReviewCall(p, id, Owner[p])

\* the review service and getMovie called concurrently on disjoint keys
DisjointNext ==
    \/ DisjointSeed
    \/ QuietTick
    \/ \E p \in Procs : Return(p)
    \/ \E p \in Procs : GetMovieCall(p, OwnMovie[p])
    \/ \E p \in Procs : GetMovieFind(p)
    \/ \E p \in Procs : GetMovieFetch(p)
    \/ \E p \in Procs : GetMovieUpsert(p)
    \/ \E p \in Procs, r \in SomeRatings, c \in CreateContents :
            CreateReviewCall(p, Owner[p], OwnMovie[p], r, c)
    \/ \E p \in Procs : CreateReviewFind(p)
    \/ \E p \in Procs : CreateReviewCreate(p)
    \/ \E p \in Procs, id \in ReviewIds, d \in SomeUpdates :
            OwnUpdateReviewCall(p, id, d)
    \/ \E p \in Procs : UpdateReviewFind(p)
    \/ \E p \in Procs : UpdateReviewUpdate(p)
    \/ \E p \in Procs, id \in ReviewIds : OwnDeleteReviewCall(p, id)
    \/ \E p \in Procs : DeleteReviewFind(p)
    \/ \E p \in Procs : DeleteReviewDelete(p)

SpecDisjoint == Init /\ [][DisjointNext]_vars

\* ------------------------------------------------------------------ server

\* a plausible slip: the hour on a 12-hour clock
ToISOString12h(t) == <<t \div 24, t % 12>>

\* Date.prototype.toISOString, at the clock's resolution of one hour: the
\* day count and the hour of the day
ToISOString(t) == <<t \div 24, t % 24>>

\* new Date(string): the instant an ISO string denotes
ParseISO(s) == s[1] * 24 + s[2]

\* the requests sent to the server
HttpRequests ==
    {[method |-> "GET", url |-> "/health", query |-> ""],
     [method |-> "POST", url |-> "/health", query |-> ""],
     [method |-> "GET", url |-> "/nonexistent", query |-> ""],
     [method |-> "POST", url |-> "/graphql", query |-> "{ health }"],
     [method |-> "POST", url |-> "/graphql", query |-> "{ movies }"]}

\* resolvers.Query against typeDefs: health is the only field
ExecuteQuery(query) ==
    IF query = "{ health }"
    THEN [statusCode |-> 200, body |-> [data |-> [health |-> "ok"]]]
    ELSE [statusCode |-> 400, body |-> [errors |-> "GRAPHQL_VALIDATION_FAILED"]]

\* the routes buildServer registers: GET /health, the Apollo handler on
\* /graphql, and Fastify's 404 for everything else
Route(req, t) ==
    IF req.url = "/health" /\ req.method = "GET"
    THEN [statusCode |-> 200,
          body |-> [status |-> "ok", timestamp |-> ToISOString(t)]]
    ELSE IF req.url = "/graphql" /\ req.method = "POST"
    THEN ExecuteQuery(req.query)
    ELSE [statusCode |-> 404, body |-> [error |-> "Not Found"]]

\* buildServer returns the app: plugins registered, Apollo started
BuildServer ==
    /\ pc[Server] = "building"
    /\ pc' = [pc EXCEPT ![Server] = "ready"]
    /\ UNCHANGED <<now, movies, users, reviews, nextReview, call, found,
                   fetched, res, startedAt, providerCalls, writes>>

\* app.close()
CloseServer ==
    /\ pc[Server] = "ready"
    /\ pc' = [pc EXCEPT ![Server] = "closed"]
    /\ UNCHANGED <<now, movies, users, reviews, nextReview, call, found,
                   fetched, res, startedAt, providerCalls, writes>>

\* app.inject(req): the request is routed and answered; a closed server
\* answers nothing
HttpRequest(p, req) ==
    /\ pc[p] = "idle"
    /\ pc[Server] \in {"ready", "closed"}
    /\ call' = [call EXCEPT ![p] = [op |-> "http", req |-> req]]
    /\ IF pc[Server] = "ready"
       THEN Finish(p, [kind |-> "response", val |-> {Route(req, now)}])
       ELSE Finish(p, [kind |-> "ServerClosed", val |-> {}])
    /\ UNCHANGED <<now, movies, users, reviews, nextReview, found, fetched,
                   providerCalls, writes>>

ServerNext ==
    \/ BuildServer
    \/ CloseServer
    \/ Tick
    \/ \E p \in Procs : Return(p)
    \/ \E p \in Procs, req \in HttpRequests : HttpRequest(p, req)

SpecServer == Init /\ [][ServerNext]_vars

\* ------------------------------------------------ configuration and process
\* process.env: a variable is unset (the empty set) or holds one string
EnvNames == {"DATABASE_URL", "AUTH0_DOMAIN", "AUTH0_AUDIENCE", "TMDB_API_KEY",
             "SENTRY_DSN", "BACKEND_PORT", "FRONTEND_URL"}
FullEnv ==
    [n \in EnvNames |->
        CASE n = "DATABASE_URL" -> {"postgresql://db"}
          [] n = "AUTH0_DOMAIN" -> {"app.auth0.com"}
          [] n = "AUTH0_AUDIENCE" -> {"https://api"}
          [] n = "TMDB_API_KEY" -> {"key"}
          [] n = "SENTRY_DSN" -> {"https://sentry"}
          [] n = "BACKEND_PORT" -> {"8080"}
          [] n = "FRONTEND_URL" -> {"https://app"}]
Environs ==
    {FullEnv,
     [FullEnv EXCEPT !["SENTRY_DSN"] = {}, !["BACKEND_PORT"] = {},
                     !["FRONTEND_URL"] = {}],
     [FullEnv EXCEPT !["BACKEND_PORT"] = {""}],
     [FullEnv EXCEPT !["DATABASE_URL"] = {}],
     [FullEnv EXCEPT !["AUTH0_DOMAIN"] = {""}],
     [FullEnv EXCEPT !["AUTH0_AUDIENCE"] = {}, !["FRONTEND_URL"] = {}],
     [FullEnv EXCEPT !["TMDB_API_KEY"] = {""}],
     [FullEnv EXCEPT !["DATABASE_URL"] = {""}, !["TMDB_API_KEY"] = {}]}

\* requireEnv: the value, or the name of the variable the Error reports
\* ("Missing required environment variable: <name>") when it is unset or ""
requireEnv(environ, name) ==
    IF environ[name] = {} \/ environ[name] = {""}
    THEN [kind |-> "Error", val |-> {name}]
    ELSE [kind |-> "value", val |-> environ[name]]

\* optionalEnv: process.env[name] ?? fallback
optionalEnv(environ, name, fallback) ==
    IF environ[name] = {}
    THEN [kind |-> "value", val |-> {fallback}]
    ELSE [kind |-> "value", val |-> environ[name]]

\* parseInt(s, 10) on the port strings in use; NaN is the empty set
parseInt(s) ==
    CASE s = "4000" -> {4000}
      [] s = "8080" -> {8080}
      [] OTHER -> {}

\* env.<name>: what reading one property of env evaluates
EnvGet(environ, name) ==
    CASE name = "SENTRY_DSN" -> optionalEnv(environ, name, "")
      [] name = "BACKEND_PORT" ->
            [kind |-> "value",
             val |-> UNION {parseInt(s) :
                            s \in optionalEnv(environ, name, "4000").val}]
      [] name = "FRONTEND_URL" ->
            optionalEnv(environ, name, "http://localhost:3000")
      [] OTHER -> requireEnv(environ, name)

\* the order in which the env object literal lists the required variables
RequiredEnv == <<"DATABASE_URL", "AUTH0_DOMAIN", "AUTH0_AUDIENCE",
                 "TMDB_API_KEY">>

\* the two env modules of the repository.  config/env.ts evaluates every
\* property when the module is loaded, so the first missing required
\* variable throws at import; the module with getters evaluates a property
\* only when it is read, so loading it throws nothing
EnvModules == {"eager", "getters"}
LoadEnv(module, environ) ==
    LET missing == {i \in DOMAIN RequiredEnv :
                        requireEnv(environ, RequiredEnv[i]).kind = "Error"}
    IN IF module = "eager" /\ missing # {}
       THEN requireEnv(environ,
                RequiredEnv[CHOOSE i \in missing :
                                \A j \in missing : i <= j])
       ELSE [kind |-> "loaded", val |-> {}]

\* node dist/index.js: the imports are evaluated, then main() is called and
\* awaits buildServer(); an Error thrown by the import ends the process
\* with a non-zero code before main() runs
StartProcess(p, module, environ) ==
    /\ pc[Process] = "new"
    /\ pc[p] = "idle"
    /\ call' = [call EXCEPT
                    ![p] = [op |-> "main", module |-> module,
                            environ |-> environ]]
    /\ LET loaded == LoadEnv(module, environ)
       IN IF loaded.kind = "Error"
          THEN /\ pc' = [pc EXCEPT ![p] = "done", ![Process] = "exit1"]
               /\ res' = [res EXCEPT ![p] = loaded]
          ELSE /\ pc' = [pc EXCEPT ![p] = "main_build",
                                   ![Process] = "running"]
               /\ res' = res
    /\ UNCHANGED <<now, movies, users, reviews, nextReview, found, fetched,
                   startedAt, providerCalls, writes>>

\* buildServer() resolves: cors is registered with env.FRONTEND_URL and
\* Apollo is started; main() registers the two signal handlers and calls
\* server.listen with env.BACKEND_PORT
MainBuilt(p) ==
    /\ pc[p] = "main_build"
    /\ pc[Process] = "running"
    /\ pc[Server] = "building"
    /\ pc' = [pc EXCEPT ![p] = "main_listen", ![Server] = "ready",
                        ![Apollo] = "started"]
    /\ found' = [found EXCEPT
                    ![p] = {[origin |->
                                EnvGet(call[p].environ, "FRONTEND_URL").val,
                             port |->
                                EnvGet(call[p].environ, "BACKEND_PORT").val]}]
    /\ UNCHANGED <<now, movies, users, reviews, nextReview, call, fetched,
                   res, startedAt, providerCalls, writes>>

\* server.listen resolves: the server accepts connections and main() has
\* logged the address
MainListening(p) ==
    /\ pc[p] = "main_listen"
    /\ pc[Process] = "running"
    /\ pc[Server] = "ready"
    /\ pc' = [pc EXCEPT ![p] = "done", ![Server] = "listening",
                        ![Logger] = "Server listening"]
    /\ res' = [res EXCEPT ![p] = [kind |-> "listening", val |-> found[p]]]
    /\ UNCHANGED <<now, movies, users, reviews, nextReview, call, found,
                   fetched, startedAt, providerCalls, writes>>

\* a signal is delivered to the listening process: its handler calls
\* shutdown(signal), which logs the signal and awaits server.close()
Signal(sig) ==
    /\ pc[Process] = "running"
    /\ pc[Server] \in {"listening", "closed"}
    /\ pc[sig] = "none"
    /\ pc' = [pc EXCEPT ![sig] = "sd_close", ![Logger] = "Received signal"]
    /\ UNCHANGED <<now, movies, users, reviews, nextReview, call, found,
                   fetched, res, startedAt, providerCalls, writes>>

\* server.close() resolves: Fastify is closed; shutdown awaits
\* prisma.$disconnect()
ShutdownClosed(sig) ==
    /\ pc[Process] = "running"
    /\ pc[sig] = "sd_close"
    /\ pc' = [pc EXCEPT ![sig] = "sd_disconnect", ![Server] = "closed"]
    /\ UNCHANGED <<now, movies, users, reviews, nextReview, call, found,
                   fetched, res, startedAt, providerCalls, writes>>

\* prisma.$disconnect() resolves: shutdown logs 'Shutdown complete' and
\* calls process.exit(0)
ShutdownDisconnected(sig) ==
    /\ pc[Process] = "running"
    /\ pc[sig] = "sd_disconnect"
    /\ pc' = [pc EXCEPT ![sig] = "done", ![Prisma] = "disconnected",
                        ![Logger] = "Shutdown complete",
                        ![Process] = "exit0"]
    /\ UNCHANGED <<now, movies, users, reviews, nextReview, call, found,
                   fetched, res, startedAt, providerCalls, writes>>

\* the process is started by the first slot; the second sends requests to
\* it while it runs
Starters == {"p1"}
Clients == {"p2"}
ProcessRequests == {[method |-> "GET", url |-> "/health", query |-> ""]}
ClientRequest(p, req) ==
    /\ pc[Process] = "running"
    /\ pc[Server] \in {"listening", "closed"}
    /\ pc[p] = "idle"
    /\ call' = [call EXCEPT ![p] = [op |-> "http", req |-> req]]
    /\ IF pc[Server] = "listening"
       THEN Finish(p, [kind |-> "response", val |-> {Route(req, now)}])
       ELSE Finish(p, [kind |-> "ServerClosed", val |-> {}])
    /\ UNCHANGED <<now, movies, users, reviews, nextReview, found, fetched,
                   providerCalls, writes>>

ProcessNext ==
    \/ \E p \in Starters, module \in EnvModules, environ \in Environs :
            StartProcess(p, module, environ)
    \/ \E p \in Starters : MainBuilt(p)
    \/ \E p \in Starters : MainListening(p)
    \/ \E sig \in Signals : Signal(sig)
    \/ \E sig \in Signals : ShutdownClosed(sig)
    \/ \E sig \in Signals : ShutdownDisconnected(sig)
    \/ \E p \in Clients, req \in ProcessRequests : ClientRequest(p, req)
    \/ \E p \in Clients : Return(p)

SpecProcess == Init /\ [][ProcessNext]_vars

\* ------------------------------------------------------------ properties

\* request p takes a step out of the await named l
Leaves(p, l) == pc[p] = l /\ pc'[p] # l

IsGetMovie(p) == call[p].op = "getMovie"

\* C1 (freshness): whenever getMovie(id) looks up an id whose stored row has
\* now - syncedAt < 24h, the call completes at once with exactly that stored
\* row, has made no provider call and no store write, and the movie store is
\* left as it was.
C1_Freshness ==
    [][\A p \in Procs :
        (/\ Leaves(p, "find")
         /\ IsGetMovie(p)
         /\ call[p].id \in DOMAIN movies
         /\ now - movies[call[p].id].syncedAt < FRESH_WINDOW_HOURS)
        => /\ pc'[p] = "done"
           /\ res'[p] = [kind |-> "ok", val |-> {movies[call[p].id]}]
           /\ providerCalls'[p] = 0
           /\ writes'[p] = 0
           /\ movies' = movies]_vars

\* C1 witness: a getMovie call has returned a stored row aged 12h without
\* fetching
C1_Witness ==
    \E p \in Procs :
        /\ pc[p] = "done" /\ IsGetMovie(p)
        /\ fetched[p].status = "none"
        /\ res[p].kind = "ok"
        /\ \E r \in found[p] : now - r.syncedAt = 12 /\ res[p].val = {r}

\* C2 (refresh-on-stale): when the looked-up id has no row or a row with
\* now - syncedAt >= 24h (24h exactly included), the call goes on to the
\* provider; it calls the provider exactly once; when the provider answers,
\* the mapped record is upserted and the returned row is the stored one, with
\* the fetched title and a syncedAt between the call's start and its end.
C2_RefreshOnStale ==
    [][\A p \in Procs :
        /\ (/\ Leaves(p, "find") /\ IsGetMovie(p)
            /\ \/ call[p].id \notin DOMAIN movies
               \/ /\ call[p].id \in DOMAIN movies
                  /\ now - movies[call[p].id].syncedAt >= FRESH_WINDOW_HOURS)
           => pc'[p] = "fetch" /\ providerCalls'[p] = 0
        /\ (Leaves(p, "fetch") /\ IsGetMovie(p))
           => /\ providerCalls'[p] = 1
              /\ fetched'[p].status = "ok" => pc'[p] = "upsert"
              /\ fetched'[p].status # "ok" => pc'[p] = "done"
        /\ (Leaves(p, "upsert") /\ IsGetMovie(p))
           => /\ pc'[p] = "done"
              /\ providerCalls'[p] = 1
              /\ call[p].id \in DOMAIN movies'
              /\ res'[p] = [kind |-> "ok", val |-> {movies'[call[p].id]}]
              /\ movies'[call[p].id].title = fetched[p].detail.title
              /\ startedAt[p] <= movies'[call[p].id].syncedAt
              /\ movies'[call[p].id].syncedAt <= now'
              /\ \A i \in DOMAIN movies \ {call[p].id} :
                    i \in DOMAIN movies' /\ movies'[i] = movies[i]]_vars

\* C2 witness: a row exactly 24h old was looked up, the provider answered and
\* the call returned a row synced now
C2_Witness ==
    \E p \in Procs :
        /\ pc[p] = "done" /\ IsGetMovie(p)
        /\ fetched[p].status = "ok" /\ providerCalls[p] = 1
        /\ \E r \in found[p], q \in res[p].val :
              /\ q.syncedAt - r.syncedAt = FRESH_WINDOW_HOURS
              /\ q.syncedAt = now
              /\ q.title # r.title

\* C3 (stale-fallback): when the lookup found a (stale) row and the provider
\* call fails in any of the three ways, the call succeeds with the row it
\* looked up; neither that step nor any earlier step of the call changes the
\* movie store, so no syncedAt is touched.
C3_StaleFallback ==
    [][\A p \in Procs :
        /\ (/\ Leaves(p, "fetch") /\ IsGetMovie(p)
            /\ found[p] # {}
            /\ fetched'[p].status \in ProviderFailures)
           => /\ pc'[p] = "done"
              /\ res'[p] = [kind |-> "ok", val |-> found[p]]
              /\ writes'[p] = 0
              /\ movies' = movies
        /\ ((Leaves(p, "find") \/ Leaves(p, "fetch")) /\ IsGetMovie(p))
           => movies' = movies]_vars

\* C3 witness: the provider timed out and the call returned the stale row,
\* which is still the stored one
C3_Witness ==
    \E p \in Procs :
        /\ pc[p] = "done" /\ IsGetMovie(p)
        /\ fetched[p].status = "timeout"
        /\ res[p].kind = "ok" /\ res[p].val = found[p]
        /\ \E r \in found[p] :
              /\ now - r.syncedAt >= FRESH_WINDOW_HOURS
              /\ movies[call[p].id] = r

\* C4 (no-local-no-fallback): when the lookup found no row and the provider
\* call fails, the call fails with NotFound and writes nothing: if no row
\* for id is stored when the provider call fails, none is stored afterwards
\* (a row for id can then only come from another request's upsert).
C4_NoLocalNoFallback ==
    [][\A p \in Procs :
        (/\ Leaves(p, "fetch") /\ IsGetMovie(p)
         /\ found[p] = {}
         /\ fetched'[p].status \in ProviderFailures)
        => /\ pc'[p] = "done"
           /\ res'[p] = [kind |-> "NotFound", val |-> {}]
           /\ writes'[p] = 0
           /\ movies' = movies
           /\ call[p].id \notin DOMAIN movies
                => call[p].id \notin DOMAIN movies']_vars

\* C4 witness: a call failed with NotFound after a provider failure and no
\* row for its id is stored
C4_Witness ==
    \E p \in Procs :
        /\ pc[p] = "done" /\ IsGetMovie(p)
        /\ fetched[p].status \in ProviderFailures
        /\ res[p].kind = "NotFound"
        /\ call[p].id \notin DOMAIN movies

\* a rating the contract accepts: an integer from 1 to 10
AcceptableRating(r) == r.tenths = 0 /\ r.whole \in 1 .. 10

\* the stored review that an updateReview / deleteReview request names
Target(p) == {r \in reviews : r.id = call[p].reviewId}

\* the stored reviews of the pair a createReview request names
PairRows(p) ==
    {r \in reviews : r.userId = call[p].userId /\ r.movieId = call[p].movieId}

\* C5 (review uniqueness): in every reachable state, whatever createReview,
\* updateReview and deleteReview requests have run or are running
\* concurrently, no two distinct stored reviews have the same
\* (userId, movieId) pair.
C5_ReviewUniqueness ==
    \A r1, r2 \in reviews :
        (r1.userId = r2.userId /\ r1.movieId = r2.movieId) => r1 = r2

\* C5 witness: two reviews of different users are stored and a further
\* createReview for a pair that has one was turned away
C5_Witness ==
    /\ Cardinality(reviews) = 2
    /\ \E p \in Procs :
        /\ pc[p] = "done" /\ call[p].op = "createReview"
        /\ AcceptableRating(call[p].rating)
        /\ res[p].kind \in {"Validation", "P2002"}
        /\ PairRows(p) # {}

\* C6 as stated (Validation for the loser of a race): every createReview
\* with a valid rating that completes while a review for its pair is stored
\* fails with Validation.
C6_RaceLoserValidation ==
    [][\A p \in Procs :
        (/\ Leaves(p, "rc_find") \/ Leaves(p, "rc_create")
         /\ pc'[p] = "done"
         /\ PairRows(p) # {})
        => res'[p].kind = "Validation"]_vars

\* C6, what the code does: a createReview that completes while a review for
\* its pair is stored never succeeds and leaves the store as it was; it fails
\* with Validation when its own lookup saw the review, and with the
\* storage's unique-constraint error P2002 when the review was inserted
\* after its lookup.
C6_RaceLoserRejected ==
    [][\A p \in Procs :
        (/\ Leaves(p, "rc_find") \/ Leaves(p, "rc_create")
         /\ pc'[p] = "done"
         /\ PairRows(p) # {})
        => /\ reviews' = reviews
           /\ pc[p] = "rc_find" => res'[p].kind = "Validation"
           /\ pc[p] = "rc_create" => res'[p].kind = "P2002"]_vars

\* C6 witness: two concurrent createReview calls for the same pair, both
\* with valid ratings, have completed: one created the review, the other
\* got P2002
C6_Witness ==
    \E p, q \in Procs :
        /\ p # q
        /\ pc[p] = "done" /\ pc[q] = "done"
        /\ call[p].op = "createReview" /\ call[q].op = "createReview"
        /\ call[p].userId = call[q].userId
        /\ call[p].movieId = call[q].movieId
        /\ res[p].kind = "ok" /\ res[q].kind = "P2002"
        /\ res[p].val \subseteq reviews

\* C7 as stated (rating bounds): createReview, and every updateReview that
\* supplies a rating, fails with Validation when the rating is not an integer
\* in 1..10 and leaves the review store unchanged.
C7_RatingBoundsAnyCaller ==
    [][\A p \in Procs :
        /\ (/\ pc[p] = "idle"
            /\ call'[p].op = "createReview"
            /\ ~AcceptableRating(call'[p].rating))
           => /\ pc'[p] = "done"
              /\ res'[p].kind = "Validation"
              /\ reviews' = reviews
        /\ (/\ Leaves(p, "ru_find")
            /\ \E r \in call[p].rating : ~AcceptableRating(r))
           => /\ pc'[p] = "done"
              /\ res'[p].kind = "Validation"
              /\ reviews' = reviews]_vars

\* C7 (rating bounds, for the owner): createReview fails with Validation for
\* every rating that is not an integer in 1..10 (0, 11, 7.5) before anything
\* is looked up or written; updateReview of an existing review by its owner
\* fails with Validation when it supplies such a rating; both leave the
\* review store unchanged.  Ratings 1 and 10 pass the validation: the
\* createReview goes on to its lookup and the owner's updateReview to its
\* write.
C7_RatingBounds ==
    [][\A p \in Procs :
        /\ (pc[p] = "idle" /\ call'[p].op = "createReview")
           => IF AcceptableRating(call'[p].rating)
              THEN pc'[p] = "rc_find"
              ELSE /\ pc'[p] = "done"
                   /\ res'[p].kind = "Validation"
                   /\ writes'[p] = 0
                   /\ reviews' = reviews
        /\ (/\ Leaves(p, "ru_find")
            /\ call[p].rating # {}
            /\ \E r \in Target(p) : r.userId = call[p].userId)
           => IF \A r \in call[p].rating : AcceptableRating(r)
              THEN pc'[p] = "ru_update"
              ELSE /\ pc'[p] = "done"
                   /\ res'[p].kind = "Validation"
                   /\ writes'[p] = 0
                   /\ reviews' = reviews]_vars

\* C7 witness: the owner's updateReview with rating 7.5 was rejected with
\* Validation and the review still has the rating 10 it was created with
C7_Witness ==
    \E p \in Procs :
        /\ pc[p] = "done" /\ call[p].op = "updateReview"
        /\ call[p].rating = {Num(7, 5)}
        /\ res[p].kind = "Validation"
        /\ \E r \in Target(p) : r.userId = call[p].userId /\ r.rating = 10

C9_Ownership ==
    [][\A p \in Procs :
        (/\ Leaves(p, "ru_find") \/ Leaves(p, "rd_find")
         /\ \E r \in Target(p) : r.userId # call[p].userId)
        => /\ pc'[p] = "done"
           /\ res'[p].kind = "Forbidden"
           /\ writes'[p] = 0
           /\ reviews' = reviews]_vars

\* C9 witness: an updateReview by another user with the invalid rating 11
\* ended Forbidden while a deleteReview by another user ended Forbidden too,
\* and the review is still stored
C9_Witness ==
    \E p, q \in Procs :
        /\ pc[p] = "done" /\ call[p].op = "updateReview"
        /\ call[p].rating = {Num(11, 0)}
        /\ res[p].kind = "Forbidden"
        /\ pc[q] = "done" /\ call[q].op = "deleteReview"
        /\ res[q].kind = "Forbidden"
        /\ \E r \in Target(p) : r.userId # call[p].userId
        /\ \E r \in Target(q) : r.userId # call[q].userId

\* C10 (list endpoints never persist): every step of a getTrending,
\* getPopular or searchMovies call leaves the movie store exactly as it was,
\* whatever ids the results contain.
C10_ListNeverPersists ==
    [][\A p \in Procs :
        (/\ pc'[p] # pc[p]
         /\ call[p].op \in ListOps \/ call'[p].op \in ListOps)
        => movies' = movies]_vars

\* C10 witness: a search returned an id that has no row while another id has
\* one
C10_Witness ==
    \E p \in Procs :
        /\ pc[p] = "done" /\ call[p].op = "searchMovies"
        /\ res[p].kind = "ok"
        /\ \E i \in res[p].val : i \notin DOMAIN movies
        /\ DOMAIN movies # {}

\* the average a getMovieReviews request holds after a step, if any
HeldAverage(p) ==
    IF pc'[p] = "done"
    THEN {v.averageRating : v \in res'[p].val}
    ELSE {v.avg : v \in {x \in found'[p] : "avg" \in DOMAIN x}}

\* a (a set with at most one fraction) is the arithmetic mean of the ratings
\* of rows, and is empty when there are no rows
IsMeanOf(a, rows) ==
    IF rows = {} THEN a = {}
    ELSE \E x \in a :
            /\ a = {x}
            /\ x.num * Cardinality(rows) = x.den * SumRatings(rows)

\* C11 (average rating): whenever the averageRating query of a
\* getMovieReviews(movieId, page, pageSize) request resolves, the average the
\* request holds, and later returns, is the arithmetic mean of rating over
\* all reviews of movieId stored at that moment, whatever page and pageSize
\* are, and is null when the movie has no review; the request writes nothing.
C11_AverageRating ==
    [][\A p \in Procs :
        (\/ pc[p] = "gm_both" /\ pc'[p] = "gm_page"
         \/ pc[p] = "gm_avg" /\ pc'[p] = "done")
        => /\ HeldAverage(p) # {}
           /\ \A a \in HeldAverage(p) :
                IsMeanOf(a, {r \in reviews : r.movieId = call[p].movieId})
           /\ reviews' = reviews]_vars

\* C11 witness: with ratings 8 and 6 stored for the movie, a request for
\* page 1 with pageSize 1 returned one review and the average 7
C11_Witness ==
    \E p \in Procs :
        /\ pc[p] = "done" /\ call[p].op = "getMovieReviews"
        /\ call[p].pageSize = 1
        /\ {r.rating : r \in {x \in reviews : x.movieId = call[p].movieId}}
              = {6, 8}
        /\ \E v \in res[p].val :
              /\ Len(v.reviews) = 1
              /\ v.averageRating = {[num |-> 7, den |-> 1]}

\* the stored users with the externalId of a findOrCreateUser request
SameIdentity(p) == {u \in users : u.auth0Id = call[p].auth0Id}

\* the stored users that hold the externalId or the e-mail address of a
\* findOrCreateUser request
HoldsKeyOf(p) ==
    {u \in users : u.auth0Id = call[p].auth0Id \/ u.email = call[p].email}

IsFindOrCreate(p) == call[p].op = "findOrCreateUser"

\* C12 as stated (identity race): whenever two findOrCreateUser calls with
\* the same externalId have both completed, neither having met a failure
\* of the database itself, exactly one user with that externalId is stored
\* and both calls returned a user with its id.
C12_IdentityRace ==
    \A p, q \in Procs :
        (/\ p # q
         /\ pc[p] = "done" /\ pc[q] = "done"
         /\ IsFindOrCreate(p) /\ IsFindOrCreate(q)
         /\ call[p].auth0Id = call[q].auth0Id
         /\ res[p].kind # "DbError" /\ res[q].kind # "DbError")
        => /\ Cardinality(SameIdentity(p)) = 1
           /\ res[p].kind = "ok" /\ res[q].kind = "ok"
           /\ {u.id : u \in res[p].val} = {u.id : u \in SameIdentity(p)}
           /\ {u.id : u \in res[q].val} = {u.id : u \in SameIdentity(p)}

\* C12, what the code guarantees: two completed findOrCreateUser calls with
\* the same externalId that both returned a user returned the same id, and
\* exactly one user with that externalId is stored.
C12_IdentityRaceWhenReturned ==
    \A p, q \in Procs :
        (/\ p # q
         /\ pc[p] = "done" /\ pc[q] = "done"
         /\ IsFindOrCreate(p) /\ IsFindOrCreate(q)
         /\ call[p].auth0Id = call[q].auth0Id
         /\ res[p].kind = "ok" /\ res[q].kind = "ok")
        => /\ Cardinality(SameIdentity(p)) = 1
           /\ {u.id : u \in res[p].val} = {u.id : u \in SameIdentity(p)}
           /\ {u.id : u \in res[q].val} = {u.id : u \in SameIdentity(p)}

\* C12 witness: of two concurrent calls with the same externalId, one has
\* created the user and the other, whose create was rejected, is about to
\* look the user up again
C12_Witness ==
    \E p, q \in Procs :
        /\ pc[p] = "done" /\ IsFindOrCreate(p)
        /\ res[p].kind = "ok" /\ writes[p] = 1
        /\ pc[q] = "fu_retry"
        /\ call[q].auth0Id = call[p].auth0Id

\* no two stored users share an externalId, an e-mail address or a non-null
\* username
UsersUnique ==
    \A u1, u2 \in users :
        (\/ u1.auth0Id = u2.auth0Id
         \/ u1.email = u2.email
         \/ u1.username # {} /\ u1.username = u2.username)
        => u1 = u2

\* C13 (user uniqueness): in every reachable state at most one user has a
\* given externalId, at most one a given e-mail address and at most one a
\* given non-null username; a create of findOrCreateUser for an externalId
\* or e-mail address that a stored user holds stores nothing and does not
\* succeed.
C13_UserUniqueness ==
    /\ []UsersUnique
    /\ [][\A p \in Procs :
            (Leaves(p, "fu_create") /\ HoldsKeyOf(p) # {})
            => /\ users' = users
               /\ pc'[p] = "done" => res'[p].kind # "ok"]_vars

\* C13 witness: two users are stored, one of them named, and an
\* updateProfile asking for that name for the other user was rejected
C13_Witness ==
    /\ Cardinality(users) = 2
    /\ \E p \in Procs :
        /\ pc[p] = "done" /\ call[p].op = "updateProfile"
        /\ res[p].kind = "Validation"
        /\ \E u \in users : u.username = call[p].username
                            /\ u.id # call[p].userId

\* C18 (retry protocol): when the create of findOrCreateUser is rejected for
\* uniqueness the call goes on to one more lookup by externalId, with the
\* store unchanged; that lookup ends the call, with the user it finds or
\* with a fatal error when it finds none, and is never followed by another
\* attempt; a create that fails for another reason ends the call with that
\* failure at once; the second lookup is reached in no other way.
C18_RetryProtocol ==
    [][\A p \in Procs :
        /\ Leaves(p, "fu_create")
           => \/ /\ pc'[p] = "fu_retry"
                 /\ HoldsKeyOf(p) # {}
                 /\ users' = users
              \/ /\ pc'[p] = "done"
                 /\ res'[p].kind \in {"ok", "DbError"}
                 /\ res'[p].kind = "ok" => HoldsKeyOf(p) = {}
                 /\ res'[p].kind = "DbError" => users' = users
        /\ Leaves(p, "fu_retry")
           => /\ pc'[p] = "done"
              /\ users' = users
              /\ IF SameIdentity(p) = {}
                 THEN res'[p].kind = "Fatal"
                 ELSE res'[p] = [kind |-> "ok", val |-> SameIdentity(p)]
        /\ (pc'[p] = "fu_retry" /\ pc[p] # "fu_retry")
           => pc[p] = "fu_create"]_vars

\* C18 witness: a call whose create was rejected and whose second lookup
\* found the user that the concurrent call had created
C18_Witness ==
    \E p, q \in Procs :
        /\ p # q
        /\ pc[p] = "done" /\ IsFindOrCreate(p)
        /\ pc[q] = "done" /\ IsFindOrCreate(q)
        /\ res[p].kind = "ok" /\ writes[p] = 0
        /\ res[q].kind = "ok" /\ writes[q] = 1
        /\ res[p].val = res[q].val
        /\ Cardinality(users) = 1

\* C19 as stated (the fatal outcome is unreachable): whenever the create of
\* a findOrCreateUser call has been rejected for uniqueness a user with the
\* call's externalId is stored, and no call ends with the fatal error.
C19_FatalUnreachable ==
    \A p \in Procs :
        /\ pc[p] = "fu_retry" => SameIdentity(p) # {}
        /\ (pc[p] = "done" /\ IsFindOrCreate(p)) => res[p].kind # "Fatal"

\* C19, what the code guarantees: whenever the create has been rejected for
\* uniqueness, a user with the call's externalId or with its e-mail address
\* is stored.
C19_RejectedCreateHasHolder ==
    \A p \in Procs : pc[p] = "fu_retry" => HoldsKeyOf(p) # {}

\* C19 witness: a call ended with the fatal error while its e-mail address
\* belongs to a user with another externalId
C19_Witness ==
    \E p \in Procs :
        /\ pc[p] = "done" /\ IsFindOrCreate(p)
        /\ res[p].kind = "Fatal"
        /\ \E u \in users : u.email = call[p].email
                            /\ u.auth0Id # call[p].auth0Id

\* C20 (first-write-wins identity): when the lookup of
\* findOrCreateUser(externalId, email) finds a user, the call returns that
\* user and the user store is unchanged, whatever the supplied email is; a
\* stored user is never removed, and a step changes a field of a stored user
\* only if it is the write of an updateProfile for that user.
C20_FirstWriteWins ==
    [][/\ \A p \in Procs :
            (Leaves(p, "fu_find") /\ SameIdentity(p) # {})
            => /\ pc'[p] = "done"
               /\ res'[p] = [kind |-> "ok", val |-> SameIdentity(p)]
               /\ users' = users
       /\ \A u \in users :
            \/ u \in users'
            \/ /\ \E v \in users' : v.id = u.id
               /\ \E p \in Procs :
                    /\ Leaves(p, "up_update")
                    /\ call[p].userId = u.id]_vars

\* C20 witness: a call returned the stored user although it supplied another
\* e-mail address, and the stored address is the first one
C20_Witness ==
    \E p \in Procs :
        /\ pc[p] = "done" /\ IsFindOrCreate(p)
        /\ res[p].kind = "ok" /\ writes[p] = 0
        /\ \E u \in res[p].val : u \in users /\ u.email # call[p].email

\* the row a create from the record `data` gives: the supplied fields, null
\* for a nullable field that is left out
RowFromRecord(id, data, t) ==
    [id |-> id, title |-> data.title,
     posterPath |-> IF "posterPath" \in DOMAIN data THEN data.posterPath
                    ELSE {},
     syncedAt |-> t]

IsUpsertStep(p) == pc[p] = "idle" /\ call'[p].op = "upsert"

\* C14 as stated (movie upsert): upsert(id, fields) leaves exactly the row
\* made of the supplied record, whether or not a row with id existed, and
\* returns it.
C14_UpsertOverwritesAll ==
    [][\A p \in Procs :
        IsUpsertStep(p)
        => /\ movies'[call'[p].id]
                = RowFromRecord(call'[p].id, call'[p].data, now)
           /\ res'[p] = [kind |-> "ok", val |-> {movies'[call'[p].id]}]]_vars

\* C14 (movie upsert, field by field): upsert(id, fields) creates the row
\* from the record when no row with id exists (a nullable field the record
\* leaves out is null); otherwise it overwrites the fields the record
\* supplies and keeps the stored value of a field the record leaves out; in
\* both cases syncedAt is now, the rows of other ids are untouched, the
\* store holds one row for id and that row is returned.
C14_Upsert ==
    [][\A p \in Procs :
        IsUpsertStep(p)
        => LET id == call'[p].id
               data == call'[p].data IN
           /\ DOMAIN movies' = DOMAIN movies \cup {id}
           /\ \A i \in DOMAIN movies : i # id => movies'[i] = movies[i]
           /\ movies'[id].id = id
           /\ movies'[id].title = data.title
           /\ movies'[id].syncedAt = now
           /\ movies'[id].posterPath =
                IF "posterPath" \in DOMAIN data THEN data.posterPath
                ELSE IF id \in DOMAIN movies THEN movies[id].posterPath
                ELSE {}
           /\ res'[p] = [kind |-> "ok", val |-> {movies'[id]}]]_vars

\* C14 witness: an upsert whose record has no posterPath returned a row
\* with the new title and the poster path stored before
C14_Witness ==
    \E p \in Procs :
        /\ pc[p] = "done" /\ call[p].op = "upsert"
        /\ "posterPath" \notin DOMAIN call[p].data
        /\ \E r \in res[p].val :
            /\ r = movies[call[p].id]
            /\ r.title = "Updated Title"
            /\ r.posterPath = {"/poster.jpg"}

\* C15 (syncedAt): no step removes a movie or lowers its syncedAt; a step
\* that creates a movie row or changes one is the upsert of a getMovie
\* refresh and leaves that row with syncedAt = now; every other step, the
\* stale-fallback return included, leaves every row as it is.
C15_SyncedAt ==
    [][/\ \A i \in DOMAIN movies :
            /\ i \in DOMAIN movies'
            /\ movies'[i].syncedAt >= movies[i].syncedAt
       /\ \A i \in DOMAIN movies' :
            (i \notin DOMAIN movies \/ movies'[i] # movies[i])
            => /\ movies'[i].syncedAt = now
               /\ \E p \in Procs :
                    /\ Leaves(p, "upsert")
                    /\ call[p].id = i]_vars

\* C15 witness: one getMovie refreshed a movie after the clock had advanced
\* while another one, whose provider call failed, returned the stale row;
\* the stored row carries the time of the refresh
C15_Witness ==
    \E p, q \in Procs :
        /\ pc[p] = "done" /\ pc[q] = "done"
        /\ IsGetMovie(p) /\ IsGetMovie(q)
        /\ call[p].id = call[q].id
        /\ writes[p] = 1
        /\ writes[q] = 0 /\ providerCalls[q] = 1 /\ res[q].kind = "ok"
        /\ now > 0
        /\ movies[call[p].id].syncedAt = now

ValidISO(s) ==
    /\ s[2] \in 0 .. 23
    /\ <<ParseISO(s) \div 24, ParseISO(s) % 24>> = s

\* C17 (server routing): every request answered between the return of
\* buildServer and the close of the server is answered as follows: GET
\* /health with status 200 and a body with status "ok" and a valid ISO
\* timestamp that denotes the current time; the GraphQL query { health } with
\* status 200 and data.health = "ok"; a request to a path that is not
\* registered with status 404.
C17_ServerRouting ==
    [][\A p \in Procs :
        (/\ pc[p] = "idle" /\ call'[p].op = "http"
         /\ pc[Server] = "ready")
        => LET req == call'[p].req IN
           /\ pc'[p] = "done"
           /\ res'[p].kind = "response"
           /\ \E r \in res'[p].val :
                /\ res'[p].val = {r}
                /\ (req.method = "GET" /\ req.url = "/health")
                   => /\ r.statusCode = 200
                      /\ r.body.status = "ok"
                      /\ ValidISO(r.body.timestamp)
                      /\ ParseISO(r.body.timestamp) = now
                /\ (req.url = "/graphql" /\ req.query = "{ health }")
                   => /\ r.statusCode = 200
                      /\ r.body.data.health = "ok"
                /\ req.url \notin {"/health", "/graphql"}
                   => r.statusCode = 404]_vars

\* C17 witness: after the clock has passed noon, a health check was answered
\* 200 while another request, to an unknown path, was answered 404
C17_Witness ==
    \E p, q \in Procs :
        /\ pc[p] = "done" /\ call[p].op = "http"
        /\ call[p].req.url = "/health" /\ call[p].req.method = "GET"
        /\ \E r \in res[p].val :
              r.statusCode = 200 /\ r.body.timestamp[2] >= 12
        /\ pc[q] = "done" /\ call[q].op = "http"
        /\ call[q].req.url = "/nonexistent"
        /\ \E r \in res[q].val : r.statusCode = 404
        /\ pc[Server] = "ready"

\* C21 (order of the checks): when updateReview or deleteReview has looked
\* the review up, a reviewId with no stored review ends the call with
\* NotFound; otherwise a caller who is not the owner ends it with Forbidden;
\* otherwise a supplied rating that is not an integer in 1..10 ends it with
\* Validation; otherwise the call goes on to its write.  The lookup step
\* changes no review, and a write step that does not end in "ok" changes
\* none either: every failing call leaves the review store unchanged.
C21_CheckOrder ==
    [][\A p \in Procs :
        /\ (Leaves(p, "ru_find") \/ Leaves(p, "rd_find"))
           => /\ reviews' = reviews
              /\ IF Target(p) = {}
                 THEN pc'[p] = "done" /\ res'[p].kind = "NotFound"
                 ELSE IF \E r \in Target(p) : r.userId # call[p].userId
                 THEN pc'[p] = "done" /\ res'[p].kind = "Forbidden"
                 ELSE IF \E r \in call[p].rating : ~AcceptableRating(r)
                 THEN pc'[p] = "done" /\ res'[p].kind = "Validation"
                 ELSE pc'[p] \in {"ru_update", "rd_delete"}
        /\ (/\ Leaves(p, "ru_update") \/ Leaves(p, "rd_delete")
            /\ res'[p].kind # "ok")
           => reviews' = reviews]_vars

\* C21 witness: an updateReview by a user who owns no review, with the
\* invalid rating 11 and the id of a review that is not stored, ended
\* NotFound, while a deleteReview of a stored review by another user ended
\* Forbidden
C21_Witness ==
    \E p, q \in Procs :
        /\ pc[p] = "done" /\ call[p].op = "updateReview"
        /\ call[p].rating = {Num(11, 0)}
        /\ Target(p) = {}
        /\ res[p].kind = "NotFound"
        /\ \E r \in reviews : r.userId # call[p].userId
        /\ pc[q] = "done" /\ call[q].op = "deleteReview"
        /\ \E r \in Target(q) : r.userId # call[q].userId
        /\ res[q].kind = "Forbidden"

\* the value a payload field supplies
Supplies(field) == CHOOSE x \in field : TRUE

\* C22 (partial update): a successful updateReview replaces the review it
\* names by a row that differs from it in the supplied fields only: rating
\* and content take the supplied value when one is supplied and keep the
\* stored value when the payload leaves them out; id, userId, movieId and
\* createdAt are kept; every other review is unchanged.  No step at all
\* changes the userId or movieId of a stored review, so a review has one
\* owner for its whole life.
C22_PartialUpdate ==
    [][/\ \A p \in Procs :
            (Leaves(p, "ru_update") /\ res'[p].kind = "ok")
            => \E old \in Target(p), new \in reviews' :
                /\ reviews' = (reviews \ {old}) \cup {new}
                /\ res'[p].val = {new}
                /\ new.id = old.id
                /\ new.userId = old.userId
                /\ new.movieId = old.movieId
                /\ new.createdAt = old.createdAt
                /\ new.rating = IF call[p].rating = {} THEN old.rating
                                ELSE Supplies(call[p].rating).whole
                /\ new.content = IF call[p].content = {} THEN old.content
                                 ELSE Supplies(call[p].content)
       /\ \A r \in reviews, s \in reviews' :
            r.id = s.id => r.userId = s.userId /\ r.movieId = s.movieId]_vars

\* C22 witness: an updateReview that supplied only a rating has returned,
\* hours after the review was written, a row with the new rating and the
\* content the review was created with, next to another user's review
C22_Witness ==
    \E p \in Procs :
        /\ pc[p] = "done" /\ call[p].op = "updateReview"
        /\ call[p].rating = {Num(3, 0)} /\ call[p].content = {}
        /\ res[p].kind = "ok"
        /\ \E r \in res[p].val :
            /\ r \in reviews
            /\ r.rating = 3
            /\ r.content = "Great movie!"
            /\ r.updatedAt > r.createdAt
        /\ \E r \in reviews : r.userId # call[p].userId

\* C23 (delete): a deleteReview whose delete succeeds removes exactly the
\* review it names and returns it: in the store it leaves, no row has that
\* id, no row has that (userId, movieId) pair, and every other review is as
\* it was.  A createReview whose create runs when its pair has no row, for a
\* stored user and movie, succeeds and stores its row, so the user of a
\* deleted review can review the movie again.
C23_Delete ==
    [][\A p \in Procs :
        /\ (Leaves(p, "rd_delete") /\ res'[p].kind = "ok")
           => \E old \in Target(p) :
                /\ old.userId = call[p].userId
                /\ res'[p].val = {old}
                /\ reviews' = reviews \ {old}
                /\ \A r \in reviews' :
                    /\ r.id # old.id
                    /\ ~(r.userId = old.userId /\ r.movieId = old.movieId)
        /\ (/\ Leaves(p, "rc_create")
            /\ PairRows(p) = {}
            /\ \E u \in users : u.id = call[p].userId
            /\ call[p].movieId \in DOMAIN movies)
           => /\ res'[p].kind = "ok"
              /\ \E new \in reviews' \ reviews :
                    /\ res'[p].val = {new}
                    /\ new.userId = call[p].userId
                    /\ new.movieId = call[p].movieId]_vars

\* C23 witness: a deleteReview by the owner returned the review it deleted,
\* and the user of the deleted review has a new review, under a new id, for
\* the same movie
C23_Witness ==
    \E p \in Procs :
        /\ pc[p] = "done" /\ call[p].op = "deleteReview"
        /\ res[p].kind = "ok"
        /\ \E old \in res[p].val :
            /\ old.userId = call[p].userId
            /\ \E r \in reviews :
                /\ r.userId = old.userId /\ r.movieId = old.movieId
                /\ r.id # old.id

\* the users other than `id` that hold the username a payload asks for
OtherHolders(id, username) ==
    {u \in users : username # {} /\ u.username = username /\ u.id # id}

\* C24 (updateProfile): an updateProfile whose userId names no user fails
\* with NotFound; one whose requested username is held by a different user
\* fails with Validation; both leave the user store unchanged.  Every other
\* call, also one that asks for the username the user already has, succeeds
\* and returns the stored row, which carries the requested username.
C24_UpdateProfile ==
    [][\A p \in Procs :
        Leaves(p, "up_update")
        => IF \A u \in users : u.id # call[p].userId
           THEN res'[p].kind = "NotFound" /\ users' = users
           ELSE IF OtherHolders(call[p].userId, call[p].username) # {}
           THEN res'[p].kind = "Validation" /\ users' = users
           ELSE /\ res'[p].kind = "ok"
                /\ \E new \in users' :
                    /\ res'[p].val = {new}
                    /\ new.id = call[p].userId
                    /\ call[p].username # {}
                       => new.username = call[p].username
                    /\ \A u \in users :
                        u.id # new.id => u \in users']_vars

\* C24 witness: an updateProfile asking for the username "neo" ended with
\* Validation while another user holds that name and the caller's row is
\* still without a username
C24_Witness ==
    \E p \in Procs :
        /\ pc[p] = "done" /\ call[p].op = "updateProfile"
        /\ call[p].username = {"neo"}
        /\ res[p].kind = "Validation"
        /\ OtherHolders(call[p].userId, call[p].username) # {}
        /\ \E u \in users : u.id = call[p].userId /\ u.username = {}

\* a request slot holds the result of a listing call
IsListed(p) ==
    pc[p] = "done" /\ call[p].op \in {"getMovieReviews", "getUserReviews"}

\* the stored reviews a listing call is about
KeyRows(p) ==
    IF call[p].op = "getMovieReviews"
    THEN {r \in reviews : r.movieId = call[p].movieId}
    ELSE {r \in reviews : r.userId = call[p].userId}

\* the page number and page size in force for a listing call
PageNo(p) ==
    IF call[p].op = "getMovieReviews" THEN call[p].page
    ELSE IF call[p].page = {} THEN 1 ELSE CHOOSE x \in call[p].page : TRUE

PageLen(p) ==
    IF call[p].op = "getMovieReviews" THEN call[p].pageSize
    ELSE IF call[p].pageSize = {} THEN 20
    ELSE CHOOSE x \in call[p].pageSize : TRUE

\* the sequence of reviews a listing call returned
Listed(p) == (CHOOSE v \in res[p].val : TRUE).reviews

\* the listings of a set of rows from the newest to the oldest
Listings(rows) ==
    {l \in [1 .. Cardinality(rows) -> rows] :
        /\ \A i, j \in DOMAIN l : i # j => l[i] # l[j]
        /\ \A i, j \in DOMAIN l : i < j => l[i].createdAt >= l[j].createdAt}

\* s is the part of the listing l at positions (page - 1) * size + 1 ..
\* page * size
IsPageOf(s, l, page, size) ==
    /\ \A i \in DOMAIN s :
        /\ (page - 1) * size + i \in DOMAIN l
        /\ s[i] = l[(page - 1) * size + i]
    /\ \A k \in DOMAIN l :
        (k > (page - 1) * size /\ k <= page * size)
        => k - (page - 1) * size \in DOMAIN s

\* C25 as stated (review listing): the results of getMovieReviews and
\* getUserReviews held at one time, read from one and the same store, are
\* pages of one newest-first list of the reviews of their key: page p holds
\* the positions (p-1)*pageSize+1 .. p*pageSize of it, with page 1 and
\* pageSize 20 for an argument left out; so two different pages of the same
\* size never hold the same review.
C25_Listing ==
    \A p, q \in Procs :
        (/\ IsListed(p) /\ IsListed(q)
         /\ res[p].kind = "ok" /\ res[q].kind = "ok"
         /\ KeyRows(p) = KeyRows(q))
        => \E l \in Listings(KeyRows(p)) :
            /\ IsPageOf(Listed(p), l, PageNo(p), PageLen(p))
            /\ IsPageOf(Listed(q), l, PageNo(q), PageLen(q))

\* C25, what the code guarantees: each result of getMovieReviews and
\* getUserReviews, on its own, is the page at positions (p-1)*pageSize+1 ..
\* p*pageSize of a newest-first list of the reviews of its key (page 1 and
\* pageSize 20 for an argument left out); two results agree on one list when
\* no two reviews of the key were created at the same instant.
C25_ListingPerCall ==
    /\ \A p \in Procs :
        (IsListed(p) /\ res[p].kind = "ok")
        => \E l \in Listings(KeyRows(p)) :
            IsPageOf(Listed(p), l, PageNo(p), PageLen(p))
    /\ \A p, q \in Procs :
        (/\ IsListed(p) /\ IsListed(q)
         /\ res[p].kind = "ok" /\ res[q].kind = "ok"
         /\ KeyRows(p) = KeyRows(q)
         /\ \A r, s \in KeyRows(p) : r # s => r.createdAt # s.createdAt)
        => \E l \in Listings(KeyRows(p)) :
            /\ IsPageOf(Listed(p), l, PageNo(p), PageLen(p))
            /\ IsPageOf(Listed(q), l, PageNo(q), PageLen(q))

\* C25 witness: two reviews of one movie were created at the same instant;
\* the call for page 1 and the call for page 2, both of size 1, returned the
\* same review
C25_Witness ==
    \E p, q \in Procs :
        /\ p # q
        /\ IsListed(p) /\ IsListed(q)
        /\ call[p].op = call[q].op
        /\ KeyRows(p) = KeyRows(q)
        /\ Cardinality(KeyRows(p)) = 2
        /\ PageNo(p) = 1 /\ PageNo(q) = 2
        /\ PageLen(p) = 1 /\ PageLen(q) = 1
        /\ Listed(p) = Listed(q)
        /\ Len(Listed(p)) = 1

\* C26 (movie lifecycle): no step removes a movie row; a step that creates
\* or changes a movie row is the upsert of a getMovie call whose provider
\* call succeeded, and it touches the row of that call's id only; a step of
\* any other operation (a list endpoint, a user operation, a review
\* operation) leaves every movie row as it was.
C26_MovieLifecycle ==
    [][/\ DOMAIN movies \subseteq DOMAIN movies'
       /\ movies' # movies
          => \E p \in Procs :
                /\ call[p].op = "getMovie"
                /\ pc[p] = "upsert" /\ pc'[p] = "done"
                /\ fetched[p].status = "ok"
                /\ res'[p].kind = "ok"
                /\ \A i \in DOMAIN movies :
                    i # call[p].id => movies'[i] = movies[i]
       /\ \A p \in Procs :
            (pc'[p] # pc[p] /\ call'[p].op # "getMovie" /\ pc'[p] # "idle")
            => movies' = movies]_vars

\* C26 witness: getMovie has refreshed a stale row while a review of the
\* movie is stored and the reviewer has set a username
C26_Witness ==
    \E p \in Procs :
        /\ pc[p] = "done" /\ call[p].op = "getMovie"
        /\ found[p] # {}
        /\ writes[p] = 1
        /\ res[p].kind = "ok"
        /\ \E r \in reviews : r.movieId = call[p].id
        /\ \E u \in users : u.username = {"neo"}

\* the row the movie store holds for the id of a getMovie call
StoredMovie(p) ==
    IF call[p].id \in DOMAIN movies THEN {movies[call[p].id]} ELSE {}

C28_ConcurrentRefresh ==
    /\ [](\A i \in DOMAIN movies : movies[i].id = i)
    /\ [][\A p \in Procs :
            (IsGetMovie(p) /\ pc[p] = "upsert" /\ pc'[p] # "upsert")
            => /\ fetched[p].status = "ok"
               /\ pc'[p] = "done"
               /\ res'[p].kind = "ok"
               /\ \E row \in res'[p].val :
                    /\ res'[p].val = {row}
                    /\ row.id = call[p].id
                    /\ row.title = fetched[p].detail.title
                    /\ row.posterPath = fetched[p].detail.poster_path
                    /\ row.syncedAt >= startedAt[p]
                    /\ row.syncedAt <= now
                    /\ call[p].id \in DOMAIN movies'
                    /\ movies'[call[p].id] = row
                    /\ DOMAIN movies' = DOMAIN movies \cup {call[p].id}]_vars

\* C28 witness: two getMovie calls on the same id both found no row, both
\* refreshed, with different provider data, and both returned a row of the
\* id; the store holds the row of the later one
C28_Witness ==
    \E p, q \in Procs :
        /\ p # q
        /\ pc[p] = "done" /\ pc[q] = "done"
        /\ IsGetMovie(p) /\ IsGetMovie(q)
        /\ call[p].id = call[q].id
        /\ found[p] = {} /\ found[q] = {}
        /\ writes[p] = 1 /\ writes[q] = 1
        /\ res[p].kind = "ok" /\ res[q].kind = "ok"
        /\ res[p].val # res[q].val
        /\ res[q].val = {movies[call[q].id]}
        /\ \A r \in res[p].val : r.id = call[p].id

\* C29: graceful shutdown.  On SIGTERM or SIGINT the sequence is: close
\* Apollo Server, disconnect Prisma, close Fastify, log that shutdown is
\* complete; the process then exits with code 0; and the sequence runs once
\* even if both signals are delivered.  As states: Prisma is disconnected
\* only after Apollo was stopped, Fastify is closed only after Prisma was
\* disconnected, exit code 0 comes with all three closed and the line
\* logged, and at most one handler ever enters the sequence.
C29_Shutdown ==
    /\ (pc[Prisma] = "disconnected" => pc[Apollo] = "stopped")
    /\ (pc[Server] = "closed" => pc[Prisma] = "disconnected")
    /\ (pc[Process] = "exit0" =>
            /\ pc[Apollo] = "stopped"
            /\ pc[Prisma] = "disconnected"
            /\ pc[Server] = "closed"
            /\ pc[Logger] = "Shutdown complete")
    /\ ~(\A sig \in Signals : pc[sig] # "none")

\* C29, as index.ts runs it: Fastify is closed first and Prisma is
\* disconnected after it, Apollo is never stopped by the sequence, the
\* process exits with code 0 exactly when a handler has disconnected Prisma
\* and logged 'Shutdown complete', and a handler that has not finished is
\* still waiting on the close or the disconnect.
C29_ShutdownAsCoded ==
    /\ (pc[Prisma] = "disconnected" => pc[Server] = "closed")
    /\ pc[Apollo] # "stopped"
    /\ (pc[Process] = "exit0" <=> pc[Prisma] = "disconnected")
    /\ (pc[Process] = "exit0" =>
            /\ pc[Logger] = "Shutdown complete"
            /\ \E sig \in Signals : pc[sig] = "done")
    /\ \A sig \in Signals :
            /\ pc[sig] \in {"none", "sd_close", "sd_disconnect", "done"}
            /\ (pc[sig] = "sd_disconnect" => pc[Server] = "closed")
            /\ (pc[sig] # "none" => pc[Process] \in {"running", "exit0"})

\* both signals were delivered, both handlers entered the sequence, and the
\* process has exited with code 0 with Apollo still started
C29_Witness ==
    /\ pc[Process] = "exit0"
    /\ \A sig \in Signals : pc[sig] # "none"
    /\ pc[Server] = "closed"
    /\ pc[Apollo] = "started"

\* the required variables that are unset or empty in an environment
MissingIn(environ) ==
    {n \in {"DATABASE_URL", "AUTH0_DOMAIN", "AUTH0_AUDIENCE",
             "TMDB_API_KEY"} : environ[n] \subseteq {""}}

\* the optional variables read at startup have their defaults when unset
DefaultsTaken(p) ==
    \A cfg \in res[p].val :
        /\ (call[p].environ["BACKEND_PORT"] = {} => cfg.port = {4000})
        /\ (call[p].environ["FRONTEND_URL"] = {} =>
                cfg.origin = {"http://localhost:3000"})

\* C30: fail-fast configuration.  A process started with a required
\* variable unset or empty ends with an Error that names such a variable,
\* and its server never listens; a process that listens has taken the
\* defaults 4000 and http://localhost:3000 for the optional variables that
\* are unset, and SENTRY_DSN reads as '' when unset.
C30_FailFast ==
    /\ \A p \in Procs :
            call[p].op = "main" =>
                /\ (MissingIn(call[p].environ) # {} =>
                        /\ pc[p] = "done"
                        /\ res[p].kind = "Error"
                        /\ res[p].val # {}
                        /\ res[p].val \subseteq MissingIn(call[p].environ)
                        /\ pc[Server] = "building"
                        /\ pc[Process] = "exit1")
                /\ (res[p].kind = "listening" => DefaultsTaken(p))
    /\ \A environ \in Environs :
            environ["SENTRY_DSN"] = {} =>
                EnvGet(environ, "SENTRY_DSN").val = {""}

\* C30, as the two env modules behave: with config/env.ts, whose
\* properties are evaluated at import, the claim holds as stated; with
\* either module the optional variables take their defaults when unset,
\* and reading a required property that is unset or empty gives the Error
\* naming it.
C30_FailFastAtImport ==
    /\ \A p \in Procs :
            call[p].op = "main" =>
                /\ (/\ call[p].module = "eager"
                     /\ MissingIn(call[p].environ) # {}) =>
                        /\ pc[p] = "done"
                        /\ res[p].kind = "Error"
                        /\ res[p].val # {}
                        /\ res[p].val \subseteq MissingIn(call[p].environ)
                        /\ pc[Server] = "building"
                        /\ pc[Process] = "exit1"
                /\ (res[p].kind = "listening" =>
                        /\ res[p].val # {}
                        /\ DefaultsTaken(p))
    /\ \A environ \in Environs :
            /\ (environ["SENTRY_DSN"] = {} =>
                    EnvGet(environ, "SENTRY_DSN").val = {""})
            /\ \A n \in MissingIn(environ) :
                    EnvGet(environ, n) = [kind |-> "Error", val |-> {n}]

\* a process whose env module has getters was started without
\* DATABASE_URL and its server is listening on the default port
C30_Witness ==
    \E p \in Procs :
        /\ call[p].op = "main"
        /\ call[p].module = "getters"
        /\ call[p].environ["DATABASE_URL"] \subseteq {""}
        /\ pc[Server] = "listening"
        /\ res[p].kind = "listening"
        /\ pc[Process] = "running"

=============================================================================
